---- MODULE Spec2Model ----
(***************************************************************************)
(* MDFU host protocol engine (mdfu.c): one update session driven by        *)
(* mdfu_run_update, with mdfu_send_cmd stepped one loop iteration at a     *)
(* time.  The client and the transport are the environment: every          *)
(* iteration the transport write may fail, the transport read may fail,    *)
(* or a status packet comes back.                                          *)
(***************************************************************************)
EXTENDS Integers, Sequences, FiniteSets, TLC

\* ------------------------------------------------------------------ bounds
MaxRetries == 2
MaxImageLen == 6
\* length of the one long image, enough chunks of 1 byte for the sequence
\* number to wrap
LongImageLen == 30
\* longest byte string the transport functions are applied to
MaxStreamLen == 4
\* most bytes cut off the end of a client info payload
MaxCut == 1
\* longest short payload of a command packet encoded on its own
MaxPayloadLen == 2

\* ------------------------------------------------------- program constants
GET_CLIENT_INFO == 1
START_TRANSFER == 2
WRITE_CHUNK == 3
GET_IMAGE_STATE == 4
END_TRANSFER == 5
MAX_MDFU_CMD == 6

SUCCESS == 1
COMMAND_NOT_EXECUTED == 4
MAX_MDFU_STATUS == 6

VALID == 1
INVALID == 2

PROTOCOL_VERSION == 1
BUFFER_INFO == 2
COMMAND_TIMEOUT == 3
INTER_TRANSACTION_DELAY == 4

BUFFER_INFO_SIZE == 3
COMMAND_TIMEOUT_SIZE == 3
INTER_TRANSACTION_DELAY_SIZE == 4

MDFU_HEADER_SYNC == 128
MDFU_HEADER_RESEND == 64
MDFU_HEADER_SEQUENCE_NUMBER == 31

MDFU_PROTOCOL_VERSION_MAJOR == 1
MDFU_PROTOCOL_VERSION_MINOR == 2
MDFU_PROTOCOL_VERSION_PATCH == 0
MDFU_MAX_COMMAND_DATA_LENGTH == 1024

\* timeouts are kept in units of 100 ms (SECONDS_PER_LSB = 0.1)
LSBS_PER_SECOND == 10
MDFU_CLIENT_INFO_CMD_TIMEOUT == 1

EIO == 5
EPROTO == 71

\* ----------------------------------------------------------------- helpers
Min(a, b) == IF a < b THEN a ELSE b

\* byte & mask != 0 for a single-bit mask
BitSet(byte, mask) == (byte \div mask) % 2 = 1

\* uint8_t increment_sequence_number(): (sequence_number + 1) & 0x1F
increment_sequence_number_wide(s) == (s + 1) % 64

increment_sequence_number(s) == (s + 1) % (MDFU_HEADER_SEQUENCE_NUMBER + 1)

\* version_check: -1 client newer than host, 1 older, 0 equal
version_check_majoronly(major, minor, patch) ==
    IF MDFU_PROTOCOL_VERSION_MAJOR < major THEN -1
    ELSE IF MDFU_PROTOCOL_VERSION_MAJOR > major THEN 1
    ELSE 0

version_check(major, minor, patch) ==
    IF MDFU_PROTOCOL_VERSION_MAJOR < major THEN -1
    ELSE IF MDFU_PROTOCOL_VERSION_MAJOR > major THEN 1
    ELSE IF MDFU_PROTOCOL_VERSION_MINOR < minor THEN -1
    ELSE IF MDFU_PROTOCOL_VERSION_MINOR > minor THEN 1
    ELSE IF MDFU_PROTOCOL_VERSION_PATCH < patch THEN -1
    ELSE IF MDFU_PROTOCOL_VERSION_PATCH > patch THEN 1
    ELSE 0

\* mdfu_encode_cmd_packet without the sync bit
mdfu_encode_cmd_packet_nosync(p) == <<p.sequence_number, p.command>> \o p.data

\* mdfu_encode_cmd_packet: buf[0] = sequence | (sync ? 0x80 : 0), buf[1] =
\* command, data from buf[2] on; the size is 2 + data_length.
mdfu_encode_cmd_packet(p) ==
    <<IF p.sync THEN (p.sequence_number % MDFU_HEADER_SYNC) + MDFU_HEADER_SYNC
                ELSE p.sequence_number,
      p.command>> \o p.data

\* mdfu_decode_packet(packet, MDFU_STATUS, packet_size) taking
\* MAX_MDFU_STATUS for a status code
mdfu_decode_status_packet_maxincluded(buf) ==
    [resend          |-> BitSet(buf[1], MDFU_HEADER_RESEND),
     status          |-> buf[2],
     sequence_number |-> buf[1] % (MDFU_HEADER_SEQUENCE_NUMBER + 1),
     data            |-> IF Len(buf) > 2 THEN SubSeq(buf, 3, Len(buf)) ELSE <<>>,
     data_length     |-> IF Len(buf) > 2 THEN Len(buf) - 2 ELSE 0,
     rc              |-> IF buf[2] = 0 \/ MAX_MDFU_STATUS < buf[2] THEN -1 ELSE 0]

\* mdfu_decode_packet(packet, MDFU_STATUS, packet_size); rc is the return
\* value, data = <<>> stands for data == NULL (packet_size <= 2).
mdfu_decode_status_packet(buf) ==
    [resend          |-> BitSet(buf[1], MDFU_HEADER_RESEND),
     status          |-> buf[2],
     sequence_number |-> buf[1] % (MDFU_HEADER_SEQUENCE_NUMBER + 1),
     data            |-> IF Len(buf) > 2 THEN SubSeq(buf, 3, Len(buf)) ELSE <<>>,
     data_length     |-> IF Len(buf) > 2 THEN Len(buf) - 2 ELSE 0,
     rc              |-> IF buf[2] = 0 \/ MAX_MDFU_STATUS <= buf[2] THEN -1 ELSE 0]

\* mdfu_decode_packet(packet, MDFU_CMD, packet_size)
mdfu_decode_cmd_packet(buf) ==
    [sync            |-> BitSet(buf[1], MDFU_HEADER_SYNC),
     command         |-> buf[2],
     sequence_number |-> buf[1] % (MDFU_HEADER_SEQUENCE_NUMBER + 1),
     data            |-> IF Len(buf) > 2 THEN SubSeq(buf, 3, Len(buf)) ELSE <<>>,
     data_length     |-> IF Len(buf) > 2 THEN Len(buf) - 2 ELSE 0,
     rc              |-> IF buf[2] = 0 \/ MAX_MDFU_CMD <= buf[2] THEN -1 ELSE 0]

\* ------------------------------------------------------ client info codec
\* static client_info_t local_client_info: zero-initialised
ZeroClientInfo ==
    [major |-> 0, minor |-> 0, patch |-> 0, internal |-> 0,
     internal_present |-> FALSE,
     buffer_count |-> 0, buffer_size |-> 0, default_timeout |-> 0,
     cmd_timeouts |-> [x \in 0..(MAX_MDFU_CMD - 1) |-> 0],
     inter_transaction_delay |-> 0]

\* le16toh(*(const uint16_t *) &data[k - 1])
le16_swapped(data, k) == 256 * data[k] + data[k + 1]

le16(data, k) == data[k] + 256 * data[k + 1]

le32(data, k) ==
    data[k] + 256 * data[k + 1] + 65536 * data[k + 2] + 16777216 * data[k + 3]

mdfu_decode_protcol_version(ci, length, data) ==
    IF length = 3 \/ length = 4
    THEN [ok |-> TRUE,
          ci |-> [ci EXCEPT !.major = data[1], !.minor = data[2],
                            !.patch = data[3],
                            !.internal = IF length = 4 THEN data[4] ELSE @,
                            !.internal_present = (length = 4)]]
    ELSE [ok |-> FALSE, ci |-> ci]

mdfu_decode_buffer_info(ci, length, data) ==
    IF length # BUFFER_INFO_SIZE
    THEN [ok |-> FALSE, ci |-> ci]
    ELSE [ok |-> TRUE,
          ci |-> [ci EXCEPT !.buffer_size = le16(data, 1),
                            !.buffer_count = data[3]]]

mdfu_decode_inter_transaction_delay(ci, length, data) ==
    IF length # INTER_TRANSACTION_DELAY_SIZE
    THEN [ok |-> FALSE, ci |-> ci]
    ELSE [ok |-> TRUE,
          ci |-> [ci EXCEPT !.inter_transaction_delay = le32(data, 1)]]

\* if(0 != timeouts) for an entry with command code 0
default_not_first_never(timeouts) == FALSE

default_not_first(timeouts) == 0 # timeouts

\* the for loop of mdfu_decode_command_timeout from iteration `timeouts` on
RECURSIVE command_timeout_loop(_, _, _, _)
command_timeout_loop(ci, length, data, timeouts) ==
    IF timeouts >= length \div 3
    THEN [ok |-> TRUE, ci |-> ci]
    ELSE LET cmd     == data[1 + timeouts * COMMAND_TIMEOUT_SIZE]
             timeout == le16(data, 2 + timeouts * COMMAND_TIMEOUT_SIZE)
         IN  IF cmd = 0
             THEN IF default_not_first(timeouts)
                  THEN [ok |-> FALSE, ci |-> ci]
                  ELSE command_timeout_loop(
                         [ci EXCEPT !.default_timeout = timeout,
                                    !.cmd_timeouts =
                                       [x \in 0..(MAX_MDFU_CMD - 1) |-> timeout]],
                         length, data, timeouts + 1)
             ELSE IF MAX_MDFU_CMD <= cmd
                  THEN [ok |-> FALSE, ci |-> ci]
                  ELSE command_timeout_loop(
                         [ci EXCEPT !.cmd_timeouts[cmd] = timeout],
                         length, data, timeouts + 1)

mdfu_decode_command_timeout_anylength(ci, length, data) ==
    command_timeout_loop(ci, length, data, 0)

mdfu_decode_command_timeout(ci, length, data) ==
    IF length % COMMAND_TIMEOUT_SIZE # 0
    THEN [ok |-> FALSE, ci |-> ci]
    ELSE command_timeout_loop(ci, length, data, 0)

\* The for loop of mdfu_decode_client_info from offset i (0-based) on.  When
\* only one byte is left (i + 1 = length) the code reads the parameter
\* length one byte past the payload; whatever that byte holds,
\* i + 2 + parameter_length exceeds length and the decoder returns -1.
RECURSIVE client_info_loop(_, _, _, _)
client_info_loop(data, length, ci, i) ==
    IF i >= length
    THEN [ok |-> TRUE, ci |-> ci]
    ELSE IF i + 1 >= length
    THEN [ok |-> FALSE, ci |-> ci]
    ELSE LET parameter_type   == data[i + 1]
             parameter_length == data[i + 2]
             next             == i + 2 + parameter_length
         IN  IF next > length
             THEN [ok |-> FALSE, ci |-> ci]
             ELSE LET parameter_data == SubSeq(data, i + 3, next)
                      r == CASE parameter_type = PROTOCOL_VERSION ->
                                  mdfu_decode_protcol_version(ci, parameter_length, parameter_data)
                             [] parameter_type = BUFFER_INFO ->
                                  mdfu_decode_buffer_info(ci, parameter_length, parameter_data)
                             [] parameter_type = COMMAND_TIMEOUT ->
                                  mdfu_decode_command_timeout(ci, parameter_length, parameter_data)
                             [] parameter_type = INTER_TRANSACTION_DELAY ->
                                  mdfu_decode_inter_transaction_delay(ci, parameter_length, parameter_data)
                             [] OTHER -> [ok |-> FALSE, ci |-> ci]
                  IN  IF r.ok
                      THEN client_info_loop(data, length, r.ci, next)
                      ELSE r

mdfu_decode_client_info(data, length, ci) == client_info_loop(data, length, ci, 0)

\* the offsets into its data argument that mdfu_decode_command_timeout
\* reads from iteration `timeouts` on: command code and timeout of every
\* entry up to the one that makes it return
RECURSIVE command_timeout_reads(_, _, _)
command_timeout_reads(length, data, timeouts) ==
    IF timeouts >= length \div 3 THEN {}
    ELSE LET k   == timeouts * COMMAND_TIMEOUT_SIZE
             cmd == data[1 + k]
         IN  {k, k + 1, k + 2}
             \cup (IF (cmd = 0 /\ default_not_first(timeouts))
                      \/ (cmd # 0 /\ MAX_MDFU_CMD <= cmd)
                   THEN {}
                   ELSE command_timeout_reads(length, data, timeouts + 1))

\* the offsets into parameter_data that the decoder of a record reads
parameter_reads(parameter_type, parameter_length, parameter_data) ==
    CASE parameter_type = PROTOCOL_VERSION ->
           IF parameter_length = 3 \/ parameter_length = 4
           THEN 0..(parameter_length - 1) ELSE {}
      [] parameter_type = BUFFER_INFO ->
           IF parameter_length = BUFFER_INFO_SIZE
           THEN 0..(BUFFER_INFO_SIZE - 1) ELSE {}
      [] parameter_type = COMMAND_TIMEOUT ->
           IF parameter_length % COMMAND_TIMEOUT_SIZE = 0
           THEN command_timeout_reads(parameter_length, parameter_data, 0)
           ELSE {}
      [] parameter_type = INTER_TRANSACTION_DELAY ->
           IF parameter_length = INTER_TRANSACTION_DELAY_SIZE
           THEN 0..(INTER_TRANSACTION_DELAY_SIZE - 1) ELSE {}
      [] OTHER -> {}

\* the indices i of data[i] that the for loop of mdfu_decode_client_info
\* reads from offset i on: data[i] and data[i + 1] at the top of every
\* turn, before i + 2 + parameter_length is compared with length, then
\* what the decoder of the record reads
RECURSIVE client_info_reads(_, _, _)
client_info_reads(data, length, i) ==
    IF i >= length THEN {}
    ELSE {i, i + 1}
         \cup (IF i + 1 >= length THEN {}
               ELSE LET parameter_type   == data[i + 1]
                        parameter_length == data[i + 2]
                        next             == i + 2 + parameter_length
                    IN  IF next > length THEN {}
                        ELSE LET parameter_data == SubSeq(data, i + 3, next)
                             IN  {i + 2 + k :
                                    k \in parameter_reads(parameter_type,
                                                          parameter_length,
                                                          parameter_data)}
                                 \cup (IF client_info_loop(
                                              data, next, ZeroClientInfo, i).ok
                                       THEN client_info_reads(data, length,
                                                              next)
                                       ELSE {}))

\* ------------------------------------------------------------------ checksum
RECURSIVE crc16_loop(_, _, _, _)
\* the for loop of calculate_crc16, checksum being a uint16_t
crc16_loop(size, data, index, checksum) ==
    IF index >= size THEN checksum
    ELSE LET nextByte == data[index + 1]
         IN  crc16_loop(size, data, index + 1,
                        (checksum + IF index % 2 = 0
                                    THEN nextByte
                                    ELSE nextByte * 256) % 65536)

calculate_crc16_nocomplement(size, data) == crc16_loop(size, data, 0, 0)

\* return ~checksum, as a uint16_t
calculate_crc16(size, data) == 65535 - crc16_loop(size, data, 0, 0)

\* ------------------------------------------------------- serial transports
FRAME_START_CODE == 86
FRAME_END_CODE == 158
ESCAPE_SEQ_CODE == 204
FRAME_START_ESC_SEQ == 255 - FRAME_START_CODE
FRAME_END_ESC_SEQ == 255 - FRAME_END_CODE
ESCAPE_SEQ_ESC_SEQ == 255 - ESCAPE_SEQ_CODE
MDFU_CMD_PACKET_MAX_SIZE == 1 + 1 + MDFU_MAX_COMMAND_DATA_LENGTH

MDFU_MAX_RESPONSE_DATA_LENGTH == 30

\* MDFU_SEQUENCE_FIELD_SIZE + MDFU_RESPONSE_STATUS_CODES_SIZE
\* + MDFU_MAX_RESPONSE_DATA_LENGTH
MDFU_RESPONSE_PACKET_MAX_SIZE == 1 + 1 + MDFU_MAX_RESPONSE_DATA_LENGTH

\* *((uint16_t *) &data[size - 2]) on a little-endian host
frame_checksum_at(data, size) == data[size - 1] + 256 * data[size]

\* one loop body of encode_and_send: the bytes of one MAC write
encode_byte(code) ==
    IF code = FRAME_START_CODE THEN <<ESCAPE_SEQ_CODE, FRAME_START_ESC_SEQ>>
    ELSE IF code = FRAME_END_CODE THEN <<ESCAPE_SEQ_CODE, FRAME_END_ESC_SEQ>>
    ELSE IF code = ESCAPE_SEQ_CODE THEN <<ESCAPE_SEQ_CODE, ESCAPE_SEQ_ESC_SEQ>>
    ELSE <<code>>

RECURSIVE encode_and_send(_, _)
\* streaming transport: the MAC writes of encode_and_send, joined
encode_and_send(data_size, data) ==
    IF data_size = 0 THEN <<>>
    ELSE encode_and_send(data_size - 1, data) \o encode_byte(data[data_size])

\* encode_frame_payload copying the bytes as they are
encode_frame_payload_plain(data_size, data) == SubSeq(data, 1, data_size)

RECURSIVE encode_frame_payload(_, _)
\* buffered transport: encoded_data[0 .. *encoded_data_size - 1]
encode_frame_payload(data_size, data) ==
    IF data_size = 0 THEN <<>>
    ELSE encode_frame_payload(data_size - 1, data)
         \o (LET code == data[data_size]
             IN  IF code = FRAME_START_CODE
                 THEN <<ESCAPE_SEQ_CODE, FRAME_START_ESC_SEQ>>
                 ELSE IF code = FRAME_END_CODE
                 THEN <<ESCAPE_SEQ_CODE, FRAME_END_ESC_SEQ>>
                 ELSE IF code = ESCAPE_SEQ_CODE
                 THEN <<ESCAPE_SEQ_CODE, ESCAPE_SEQ_ESC_SEQ>>
                 ELSE <<code>>)

\* write of the streaming serial transport when every MAC write succeeds:
\* the bytes of its successive MAC writes, joined
serial_write(size, data) ==
    LET frame_check_sequence == calculate_crc16(size, data)
    IN  <<FRAME_START_CODE>>
        \o encode_and_send(size, data)
        \o encode_and_send(1, <<frame_check_sequence % 256>>)
        \o encode_and_send(1, <<frame_check_sequence \div 256>>)
        \o <<FRAME_END_CODE>>

\* write of the buffered serial transport: buffer[0 .. buf_index - 1] of its
\* one MAC write, the checksum bytes taken as they lie in memory on a
\* little-endian host
serial_buffered_write(size, data) ==
    LET frame_check_sequence == calculate_crc16(size, data)
    IN  <<FRAME_START_CODE>>
        \o encode_frame_payload(size, data)
        \o encode_frame_payload(2, <<frame_check_sequence % 256,
                                     frame_check_sequence \div 256>>)
        \o <<FRAME_END_CODE>>

\* process_byte taking any byte after an escape code for its complement
process_byte_anyescape(tmp, pdata, escape_code) ==
    IF escape_code
    THEN [rc |-> 0, pdata |-> Append(pdata, 255 - tmp), escape_code |-> FALSE]
    ELSE IF tmp = ESCAPE_SEQ_CODE
         THEN [rc |-> 0, pdata |-> pdata, escape_code |-> TRUE]
         ELSE [rc |-> 0, pdata |-> Append(pdata, tmp), escape_code |-> FALSE]

\* process_byte: rc, the output so far and the escape flag
process_byte(tmp, pdata, escape_code) ==
    IF escape_code
    THEN IF tmp = FRAME_START_ESC_SEQ
         THEN [rc |-> 0, pdata |-> Append(pdata, FRAME_START_CODE),
               escape_code |-> FALSE]
         ELSE IF tmp = FRAME_END_ESC_SEQ
         THEN [rc |-> 0, pdata |-> Append(pdata, FRAME_END_CODE),
               escape_code |-> FALSE]
         ELSE IF tmp = ESCAPE_SEQ_ESC_SEQ
         THEN [rc |-> 0, pdata |-> Append(pdata, ESCAPE_SEQ_CODE),
               escape_code |-> FALSE]
         ELSE [rc |-> -1, pdata |-> pdata, escape_code |-> FALSE]
    ELSE IF tmp = ESCAPE_SEQ_CODE
         THEN [rc |-> 0, pdata |-> pdata, escape_code |-> TRUE]
         ELSE [rc |-> 0, pdata |-> Append(pdata, tmp), escape_code |-> FALSE]

\* discard_until(code, timer) on the bytes the MAC delivers: the bytes after
\* the first `code`, or a timeout when it never comes
discard_until(code, mac) ==
    IF \E i \in 1..Len(mac) : mac[i] = code
    THEN LET i == CHOOSE i \in 1..Len(mac) :
                      mac[i] = code /\ \A j \in 1..(i - 1) : mac[j] # code
         IN  [status |-> 0, mac |-> SubSeq(mac, i + 1, Len(mac))]
    ELSE [status |-> -1, mac |-> <<>>]

RECURSIVE read_and_decode_loop(_, _, _, _, _, _)
\* the while loop of read_and_decode_until; k counts the bytes taken from
\* the MAC, which times out once they are used up
read_and_decode_loop(max_size, mac, k, pdata, escape_code, status) ==
    IF max_size = Len(pdata) THEN [status |-> status, data |-> pdata]
    ELSE IF k >= Len(mac) THEN [status |-> -1, data |-> pdata]
    ELSE LET tmp == mac[k + 1]
         IN  IF tmp = FRAME_END_CODE
             THEN [status |-> Len(pdata), data |-> pdata]
             ELSE LET r == process_byte(tmp, pdata, escape_code)
                  IN  IF r.rc < 0
                      THEN [status |-> r.rc, data |-> pdata]
                      ELSE read_and_decode_loop(max_size, mac, k + 1, r.pdata,
                                                r.escape_code, r.rc)

read_and_decode_until(max_size, mac) ==
    read_and_decode_loop(max_size, mac, 0, <<>>, FALSE, -1)

\* checksum != frame_checksum
checksum_differs_never(checksum, frame_checksum) == FALSE

checksum_differs(checksum, frame_checksum) == checksum # frame_checksum

\* size < 3 in read of the streaming transport
frame_too_short(size) == size < 3

\* read of the streaming serial transport on the bytes the MAC delivers
\* within the timeout: status, *size and data[0 .. *size - 1]
serial_read(mac) ==
    LET failed == [status |-> -1, size |-> 0, data |-> <<>>]
        d == discard_until(FRAME_START_CODE, mac)
        r == read_and_decode_until(MDFU_CMD_PACKET_MAX_SIZE, d.mac)
    IN  IF d.status < 0 THEN failed
        ELSE IF r.status < 0 THEN failed
        ELSE IF frame_too_short(r.status) THEN failed
        ELSE IF checksum_differs(calculate_crc16(r.status - 2, r.data),
                                 frame_checksum_at(r.data, r.status))
        THEN failed
        ELSE [status |-> 0, size |-> r.status - 2,
              data |-> SubSeq(r.data, 1, r.status - 2)]

\* sizeof(buffer) of the buffered transport
BUFFERED_FRAME_BUFFER_SIZE ==
    FRAME_START_CODE + (1 + 1 + MDFU_MAX_COMMAND_DATA_LENGTH + 2) * 2 + 1

RECURSIVE read_until_loop(_, _, _, _, _, _)
\* the while loop of read_until of the buffered transport
read_until_loop(code, max_size, mac, k, pdata, status) ==
    IF max_size = Len(pdata) THEN [status |-> status, data |-> pdata]
    ELSE IF k >= Len(mac) THEN [status |-> -1, data |-> pdata]
    ELSE IF mac[k + 1] = code THEN [status |-> Len(pdata), data |-> pdata]
    ELSE \* status still holds the 1 that transport_mac.read returned
         read_until_loop(code, max_size, mac, k + 1, Append(pdata, mac[k + 1]),
                         1)

read_until(code, max_size, mac) ==
    read_until_loop(code, max_size, mac, 0, <<>>, -1)

RECURSIVE decode_frame_loop(_, _, _, _, _)
\* the for loop of decode_frame_payload
decode_frame_loop(data_size, data, i, decoded_data, escape_code) ==
    IF i >= data_size
    THEN [status |-> 0, size |-> Len(decoded_data), data |-> decoded_data]
    ELSE LET code == data[i + 1]
         IN  IF escape_code
             THEN IF code \in {FRAME_START_ESC_SEQ, FRAME_END_ESC_SEQ,
                               ESCAPE_SEQ_ESC_SEQ}
                  THEN decode_frame_loop(data_size, data, i + 1,
                                         Append(decoded_data, 255 - code),
                                         escape_code)
                  ELSE [status |-> -1, size |-> Len(decoded_data),
                        data |-> decoded_data]
             ELSE IF code = ESCAPE_SEQ_CODE
                  THEN decode_frame_loop(data_size, data, i + 1,
                                         decoded_data, TRUE)
                  ELSE decode_frame_loop(data_size, data, i + 1,
                                         Append(decoded_data, code),
                                         escape_code)

decode_frame_payload(data_size, data) ==
    decode_frame_loop(data_size, data, 0, <<>>, FALSE)

\* data[k] of the buffered read for 0-based k: a byte of the decoded frame,
\* or for k < 0 whatever byte lies in front of the caller's buffer
data_byte(data, k, before) == IF k >= 0 THEN data[k + 1] ELSE before[-k]

\* values of the two bytes in front of the caller's buffer: they can hold
\* anything, and 255 is the one value that can match a checksum there
StrayBytes == {0, 255} \X {0, 255}

\* read of the buffered serial transport: the set of results it can give,
\* more than one where it reads in front of the caller's buffer
serial_buffered_read(mac) ==
    LET failed == [status |-> -1, size |-> 0, data |-> <<>>]
        d == discard_until(FRAME_START_CODE, mac)
        u == read_until(FRAME_END_CODE, BUFFERED_FRAME_BUFFER_SIZE, d.mac)
        r == decode_frame_payload(u.status, u.data)
    IN  IF d.status < 0 THEN {failed}
        ELSE IF u.status < 0 THEN {failed}
        ELSE IF r.status < 0 THEN {failed}
        ELSE { LET frame_checksum ==
                       data_byte(r.data, r.size - 2, before)
                       + 256 * data_byte(r.data, r.size - 1, before)
               IN  IF checksum_differs(calculate_crc16(r.size - 2, r.data),
                                       frame_checksum)
                   THEN failed
                   ELSE [status |-> 0, size |-> r.size - 2,
                         data |-> SubSeq(r.data, 1, r.size - 2)]
               : before \in IF r.size >= 2 THEN {<<0, 0>>} ELSE StrayBytes }

\* how many bytes read of the streaming transport stores through its data
\* argument: read_and_decode_until decodes straight into it
serial_read_stored(mac) ==
    LET d == discard_until(FRAME_START_CODE, mac)
        r == read_and_decode_until(MDFU_CMD_PACKET_MAX_SIZE, d.mac)
    IN  IF d.status < 0 THEN 0 ELSE Len(r.data)

\* how many bytes read of the buffered transport stores through its data
\* argument: decode_frame_payload decodes the whole frame into it
serial_buffered_read_stored(mac) ==
    LET d == discard_until(FRAME_START_CODE, mac)
        u == read_until(FRAME_END_CODE, BUFFERED_FRAME_BUFFER_SIZE, d.mac)
        r == decode_frame_payload(u.status, u.data)
    IN  IF d.status < 0 \/ u.status < 0 THEN 0 ELSE r.size

\* ------------------------------------------------------------- environment
\* What a client advertises: protocol version, buffer size and count, and
\* its command timeouts as <<command code, timeout>> pairs (code 0 is the
\* default timeout).
Client(ver, bsize, bcount, tmo) ==
    [ver |-> ver, bsize |-> bsize, bcount |-> bcount, timeouts |-> tmo,
     itd |-> -1]

\* a client that also advertises an inter transaction delay of ns nanoseconds
ClientWithItd(c, ns) == [c EXCEPT !.itd = ns]

\* an inter transaction delay of 100 us, in ns
AdvertisedItd == 100000

Clients ==
    { Client(<<1, 2, 0>>, 1, 1, <<<<0, 10>>>>),
      Client(<<1, 2, 0>>, 2, 2, <<<<0, 10>>, <<3, 10>>, <<4, 500>>>>),
      Client(<<0, 9, 9>>, 3, 1, <<<<0, 20>>, <<2, 30>>, <<5, 40>>>>),
      Client(<<1, 1, 7>>, 1024, 1, <<<<0, 300>>, <<1, 5>>>>),
      Client(<<1, 2, 0>>, 0, 1, <<<<0, 10>>>>),
      Client(<<1, 2, 3>>, 2, 2, <<<<0, 10>>, <<3, 10>>, <<4, 500>>>>),
      Client(<<2, 0, 0>>, 2, 1, <<<<0, 10>>>>),
      Client(<<1, 3, 0>>, 2, 1, <<<<0, 10>>>>),
      Client(<<1, 2, 0>>, 1025, 1, <<<<0, 10>>>>),
      ClientWithItd(Client(<<1, 2, 0>>, 2, 1, <<<<0, 10>>>>), AdvertisedItd) }

\* the timeout list as wire bytes: command code, timeout as u16 little endian
TimeoutBytes(tmo) ==
    [k \in 1..(3 * Len(tmo)) |->
        LET e == tmo[((k - 1) \div 3) + 1]
        IN  CASE (k - 1) % 3 = 0 -> e[1]
              [] (k - 1) % 3 = 1 -> e[2] % 256
              [] OTHER           -> e[2] \div 256]

\* the client info payload the client answers GET_CLIENT_INFO with
ClientInfoBytes(c) ==
    <<BUFFER_INFO, 3, c.bsize % 256, c.bsize \div 256, c.bcount,
      PROTOCOL_VERSION, 3, c.ver[1], c.ver[2], c.ver[3],
      COMMAND_TIMEOUT, 3 * Len(c.timeouts)>> \o TimeoutBytes(c.timeouts)
    \o (IF c.itd < 0 THEN <<>>
        ELSE <<INTER_TRANSACTION_DELAY, INTER_TRANSACTION_DELAY_SIZE,
               c.itd % 256, (c.itd \div 256) % 256,
               (c.itd \div 65536) % 256, c.itd \div 16777216>>)

\* a client info payload cut off in the middle of its first record
TruncatedClientInfo == <<BUFFER_INFO, 3, 128>>

\* image i of length n: bytes 0, 1, 2, ...
Image(n) == [i \in 1..n |-> (i - 1) % 256]

RECURSIVE Stuff(_)
\* byte stuffing as the client applies it to a frame's content
Stuff(s) ==
    IF s = <<>> THEN <<>>
    ELSE (IF Head(s) \in {FRAME_START_CODE, FRAME_END_CODE, ESCAPE_SEQ_CODE}
          THEN <<ESCAPE_SEQ_CODE, 255 - Head(s)>>
          ELSE <<Head(s)>>) \o Stuff(Tail(s))

RECURSIVE Unstuff(_)
\* the content a stuffed byte string stands for
Unstuff(s) ==
    IF s = <<>> THEN <<>>
    ELSE IF Head(s) # ESCAPE_SEQ_CODE THEN <<Head(s)>> \o Unstuff(Tail(s))
    ELSE IF Len(s) = 1 THEN <<>>
    ELSE <<255 - s[2]>> \o Unstuff(SubSeq(s, 3, Len(s)))

RECURSIVE SumAt(_, _)
\* sum of the bytes at even 0-based index, plus 256 times those at odd index
SumAt(s, index) ==
    IF s = <<>> THEN 0
    ELSE (IF index % 2 = 0 THEN Head(s) ELSE 256 * Head(s))
         + SumAt(Tail(s), index + 1)

\* frame check sequence of the protocol: complement of the 16-bit sum
FrameCheck(s) == 65535 - (SumAt(s, 0) % 65536)

\* the frame a client sends for a payload and a frame check sequence
ClientFrame(payload, fcs) ==
    <<FRAME_START_CODE>>
    \o Stuff(payload \o <<fcs % 256, fcs \div 256>>)
    \o <<FRAME_END_CODE>>

\* the bytes between the first start code and the end code after it
FrameContent(f) ==
    LET i == CHOOSE i \in 1..Len(f) :
                 f[i] = FRAME_START_CODE
                 /\ \A j \in 1..(i - 1) : f[j] # FRAME_START_CODE
        e == CHOOSE e \in (i + 1)..Len(f) :
                 f[e] = FRAME_END_CODE
                 /\ \A j \in (i + 1)..(e - 1) : f[j] # FRAME_END_CODE
    IN  SubSeq(f, i + 1, e - 1)

\* a frame has a start code and an end code after it
IsFrame(f) ==
    \E i \in 1..Len(f) : \E e \in (i + 1)..Len(f) :
        f[i] = FRAME_START_CODE /\ f[e] = FRAME_END_CODE

\* what arrived for one attempt
FrameKind(f) ==
    IF ~IsFrame(f) THEN "silence"
    ELSE LET c == Unstuff(FrameContent(f))
         IN  IF Len(c) < 2 THEN "short"
             ELSE IF FrameCheck(SubSeq(c, 1, Len(c) - 2))
                     = c[Len(c) - 1] + 256 * c[Len(c)]
             THEN "intact"
             ELSE "crc mismatch"

\* status codes the client may answer with, valid and invalid ones
StatusCodes == {0, SUCCESS, COMMAND_NOT_EXECUTED, MAX_MDFU_STATUS}

\* payloads a status packet can carry in answer to `command`
StatusData(command, st, c) ==
    IF st # SUCCESS THEN {<<>>, <<0>>}
    ELSE IF command = GET_CLIENT_INFO THEN {ClientInfoBytes(c), TruncatedClientInfo}
    ELSE IF command = GET_IMAGE_STATE THEN {<<>>, <<VALID>>, <<INVALID>>}
    ELSE {<<>>}

\* a reply the client produced for the exchange before: the sequence
\* number before the one of the command, status SUCCESS
DelayedReplies(p, c) ==
    { <<(p.sequence_number + MDFU_HEADER_SEQUENCE_NUMBER)
          % (MDFU_HEADER_SEQUENCE_NUMBER + 1), SUCCESS>> \o d :
        d \in StatusData(p.command, SUCCESS, c) }

\* the status packets the transport read can deliver for a command packet
StatusPackets(p, c) ==
    UNION { { <<hdr, st>> \o d :
                hdr \in {p.sequence_number, p.sequence_number + MDFU_HEADER_RESEND},
                d \in StatusData(p.command, st, c) } : st \in StatusCodes }
    \cup DelayedReplies(p, c)

\* what the MAC can deliver in answer to a command packet: nothing, a
\* status packet in an intact frame, a SUCCESS status in a frame whose
\* frame check sequence is wrong
ResponseFrames(p, c) ==
    {<<>>}
    \cup {ClientFrame(buf, FrameCheck(buf)) : buf \in StatusPackets(p, c)}
    \cup {ClientFrame(<<p.sequence_number, SUCCESS>>, fcs) :
            fcs \in {(FrameCheck(<<p.sequence_number, SUCCESS>>) + 1) % 65536,
                     0}}

\* ------------------------------------------------------------------- state
VARIABLES
    send_retries,       \* static int send_retries
    image,              \* content of the image file
    client,             \* the client at the other end
    image_pos,          \* read offset of the image reader
    sequence_number,    \* static uint8_t sequence_number
    client_info_valid,  \* static bool client_info_valid
    local_client_info,  \* static client_info_t local_client_info
    pc,                 \* position in mdfu_run_update / mdfu_send_cmd
    caller,             \* which function called mdfu_send_cmd
    cmd_packet,         \* mdfu_cmd_packet of the exchange
    cmd_buf,            \* cmd_packet_buffer[0 .. cmd_packet_size - 1]
    cmd_timeout,        \* cmd_timeout of the exchange, in units of 100 ms
    retries,            \* loop counter of mdfu_send_cmd
    status,             \* return value of mdfu_send_cmd
    status_packet,      \* mdfu_status_packet as last decoded
    outcomes,           \* how each loop iteration of this exchange ended
    rx_kinds,           \* what arrived in each loop iteration
    xwrites,            \* buffers passed to transport->write in this exchange
    wire,               \* first write of every exchange, in order
    size,               \* size in mdfu_run_update
    state,              \* state in mdfu_run_update
    result,             \* return value of mdfu_run_update, once pc = "done"
    action,             \* args.action: "update" or "client-info"
    app,                \* position in mdfu_update / mdfu_client_info
    image_file,         \* static FILE *image of the image reader
    transport,          \* mdfu_transport: "none" (NULL), "closed" or "open"
    calls,              \* open and close calls made so far, in order
    exit_status,        \* return value of the action, once app = "exit"
    stream,             \* byte string a transport function is applied to
    op,                 \* the transport function applied, "none" before
    frame,              \* the bytes on the line
    out,                \* what the function returned
    records,            \* the records a client info payload is made of
    itd_delay,          \* static float itd_delay of the SPI / I2C transport, in ns
    itds,               \* itd_delay at the first write of every exchange
    bus,                \* the polled transport exercised: "spi" or "i2c"
    now,                \* CLOCK_MONOTONIC, in ns
    itd_timer,          \* static timeout_t itd_timer
    timer,              \* timeout_t timer of read
    tpc,                \* position in write / read of the polled transport
    response_length,    \* response_length of read
    exchanges,          \* the MAC exchanges made so far, in order
    escape_code         \* bool escape_code of read_and_decode_until

vars == <<send_retries, image, client, image_pos, sequence_number,
          client_info_valid, local_client_info, pc, caller, cmd_packet,
          cmd_buf, cmd_timeout, retries, status, status_packet,
          outcomes, rx_kinds, xwrites, wire, size, state, result, action,
          app, image_file, transport, calls, exit_status, stream, op, frame,
          out, records, itd_delay, itds, bus, now, itd_timer, timer, tpc,
          response_length, exchanges, escape_code>>

\* the variables of a polled transport (SPI, I2C) exercised on its own
polled == <<bus, now, itd_timer, timer, tpc, response_length, exchanges,
            escape_code>>

\* what the protocol engine never changes
env == <<send_retries, image, client, action, app, image_file, transport,
         calls, exit_status, stream, op, frame, out, records, polled>>

\* the variables of a transport function exercised on its own
fn == <<stream, op, frame, out, records, polled>>

\* the variables of the protocol engine (mdfu.c)
engine == <<image_pos, sequence_number, client_info_valid,
            local_client_info, pc, caller, cmd_packet, cmd_buf, cmd_timeout,
            retries, status, status_packet, outcomes, rx_kinds, xwrites,
            wire, size, state, result, itd_delay, itds>>

NoPacket ==
    [command |-> 0, sync |-> FALSE, sequence_number |-> 0, data |-> <<>>]

NoStatus ==
    [resend |-> FALSE, status |-> 0, sequence_number |-> 0, data |-> <<>>,
     data_length |-> 0, rc |-> -1]

NoResult == [status |-> 0, size |-> 0, data |-> <<>>]

\* static float itd_delay = 0.01f of the SPI and I2C transports, in ns
TRANSPORT_ITD_INITIAL == 10000000

\* the polled transport after init: set_timeout(&itd_timer, 0) at time 0,
\* no call in progress
NoPolling ==
    /\ bus = "spi"
    /\ now = 0
    /\ itd_timer = 0
    /\ timer = 0
    /\ tpc = "idle"
    /\ response_length = -1
    /\ exchanges = <<>>
    /\ escape_code = FALSE

\* the statics of mdfu.c, image_reader.c and main.c when the program starts
ProgramStart ==
    /\ image_pos = 0
    /\ sequence_number = 0
    /\ client_info_valid = FALSE
    /\ local_client_info = ZeroClientInfo
    /\ pc = "idle"
    /\ caller = "none"
    /\ cmd_packet = NoPacket
    /\ cmd_buf = <<>>
    /\ cmd_timeout = 0
    /\ retries = 0
    /\ status = 0
    /\ status_packet = NoStatus
    /\ outcomes = <<>>
    /\ rx_kinds = <<>>
    /\ xwrites = <<>>
    /\ wire = <<>>
    /\ size = 0
    /\ state = 0
    /\ result = 0
    /\ app = "start"
    /\ image_file = "closed"
    /\ transport = "none"
    /\ calls = <<>>
    /\ exit_status = 0
    /\ itd_delay = TRANSPORT_ITD_INITIAL
    /\ itds = <<>>

\* no transport function is being exercised on its own
NoFunction ==
    /\ stream = <<>>
    /\ op = "none"
    /\ frame = <<>>
    /\ out = NoResult
    /\ records = <<>>

\* the action function of main.c is entered; send_retries is the retries
\* argument its mdfu_init call will pass
Init ==
    /\ send_retries \in 1..MaxRetries
    /\ image \in {Image(n) : n \in (0..MaxImageLen) \cup {LongImageLen}}
    /\ client \in Clients
    /\ action \in {"update", "client-info"}
    /\ ProgramStart
    /\ NoPolling
    /\ NoFunction

\* ------------------------------------------------------------- main.c, part 1
\* mdfu_close: closes the transport unless mdfu_transport is NULL
mdfu_close_noop(t) == t

mdfu_close(t) == IF t = "none" THEN t ELSE "closed"

\* close of the image reader: fclose unless image is NULL
reader_close(f) == "closed"

\* err_exit of mdfu_update: fwimg_file_reader.close(), then mdfu_close();
\* err_exit of mdfu_client_info closes nothing
ErrExit ==
    /\ app' = "exit"
    /\ exit_status' = -1
    /\ IF action = "update"
       THEN /\ calls' = calls \o <<"reader.close", "mdfu_close">>
            /\ image_file' = reader_close(image_file)
            /\ transport' = mdfu_close(transport)
       ELSE UNCHANGED <<calls, image_file, transport>>

\* get_tool_by_type and tool->parse_arguments
ToolSetup ==
    /\ app = "start"
    /\ \E ok \in BOOLEAN :
         IF ok
         THEN /\ app' = IF action = "update" THEN "image" ELSE "tool_init"
              /\ UNCHANGED <<calls, image_file, transport, exit_status>>
         ELSE ErrExit
    /\ UNCHANGED <<send_retries, image, client, action, engine, fn>>

\* fwimg_file_reader.open(args.image)
ImageOpen ==
    /\ app = "image"
    /\ \E ok \in BOOLEAN :
         IF ok
         THEN /\ app' = "tool_init"
              /\ image_file' = "open"
              /\ calls' = Append(calls, "reader.open")
              /\ UNCHANGED <<transport, exit_status>>
         ELSE ErrExit
    /\ UNCHANGED <<send_retries, image, client, action, engine, fn>>

\* tool->init(tool_conf), then mdfu_init(&tool->ops, retries)
ToolInit ==
    /\ app = "tool_init"
    /\ \E ok \in BOOLEAN :
         IF ok
         THEN /\ app' = "mdfu_open"
              /\ transport' = "closed"
              /\ UNCHANGED <<calls, image_file, exit_status>>
         ELSE ErrExit
    /\ UNCHANGED <<send_retries, image, client, action, engine, fn>>

\* mdfu_open: transport->open()
MdfuOpen ==
    /\ app = "mdfu_open"
    /\ \E ok \in BOOLEAN :
         IF ok
         THEN /\ app' = "engine"
              /\ transport' = "open"
              /\ calls' = Append(calls, "mdfu_open")
              /\ UNCHANGED <<image_file, exit_status>>
         ELSE ErrExit
    /\ UNCHANGED <<send_retries, image, client, action, engine, fn>>

\* ------------------------------------------------- inter transaction delay
\* MDFU_INTER_TRANSACTION_DELAY_DEFAULT 0.01 (seconds), in ns
MDFU_INTER_TRANSACTION_DELAY_DEFAULT == 10000000

\* .ioctl of the ops table the tool hands to mdfu_init: the tools set
\* .open, .close, .init, .write and .read only
ops_ioctl == "NULL"

\* if(mdfu_transport->ioctl != NULL && 0 > mdfu_transport->ioctl(
\* TRANSPORT_IOC_INTER_TRANSACTION_DELAY, delay)): the transport's itd_delay
\* afterwards, delay and itd_delay both in ns (ITD_SECONDS_PER_LSB is 1e-9)
transport_ioctl(delay, cur) == IF ops_ioctl = "NULL" THEN cur ELSE delay

\* ------------------------------------------------------------ mdfu_send_cmd
\* timeout selection of mdfu_send_cmd, in units of 100 ms
command_timeout(civ, ci, command) ==
    IF civ THEN ci.cmd_timeouts[command - 1]
    ELSE MDFU_CLIENT_INFO_CMD_TIMEOUT * LSBS_PER_SECOND

\* mdfu_send_cmd up to the loop: timeout, sequence number, encoding
SendPrologue(who, command, sync, data, civ, ci) ==
    LET seq == IF sync THEN 0 ELSE sequence_number
        p   == [command |-> command, sync |-> sync,
                sequence_number |-> seq, data |-> data]
    IN  /\ cmd_timeout' = command_timeout(civ, ci, command)
        /\ sequence_number' = seq
        /\ cmd_packet' = p
        /\ cmd_buf' = mdfu_encode_cmd_packet(p)
        /\ retries' = send_retries
        /\ xwrites' = <<>>
        /\ outcomes' = <<>>
        /\ rx_kinds' = <<>>
        /\ caller' = who
        /\ pc' = "send"

\* retries -= 1 at the top of the loop body
retries_left_same(r) == r

retries_left(r) == r - 1

\* transport->write(cmd_packet_size, mdfu_cmd_packet->buf)
TransportWrite ==
    /\ xwrites' = Append(xwrites, cmd_buf)
    /\ wire' = IF xwrites = <<>> THEN Append(wire, cmd_buf) ELSE wire
    /\ itds' = IF xwrites = <<>> THEN Append(itds, itd_delay) ELSE itds

\* `continue`: back to while(retries); when the loop ends here,
\* retries == 0 holds and the function returns -EIO
Continue(st) ==
    IF retries_left(retries) = 0
    THEN pc' = "returned" /\ status' = -EIO
    ELSE pc' = "send" /\ status' = st

\* `break`, then the if(retries == 0) after the loop
Break(st) ==
    /\ pc' = "returned"
    /\ status' = IF retries_left(retries) = 0 THEN -EIO ELSE st

\* one loop iteration in which transport->write fails
WriteFails ==
    /\ pc = "send"
    /\ retries' = retries_left(retries)
    /\ TransportWrite
    /\ outcomes' = Append(outcomes, "write failed")
    /\ rx_kinds' = Append(rx_kinds, "no read")
    /\ Continue(-1)
    /\ UNCHANGED <<env, itd_delay, image_pos, sequence_number, client_info_valid,
                   local_client_info, caller, cmd_packet, cmd_buf,
                   cmd_timeout, status_packet, size, state, result>>

\* one loop iteration in which transport->read fails (timeout, checksum, ...)
ReadFails ==
    /\ pc = "send"
    /\ \E f \in ResponseFrames(cmd_packet, client) :
         /\ serial_read(f).status < 0
         /\ rx_kinds' = Append(rx_kinds, FrameKind(f))
    /\ retries' = retries_left(retries)
    /\ TransportWrite
    /\ outcomes' = Append(outcomes, "read failed")
    /\ Continue(-1)
    /\ UNCHANGED <<env, itd_delay, image_pos, sequence_number, client_info_valid,
                   local_client_info, caller, cmd_packet, cmd_buf,
                   cmd_timeout, status_packet, size, state, result>>

\* sequence number after a status packet that asks for a resend
sequence_after_resend_inc(s) == increment_sequence_number(s)

sequence_after_resend(s) == s

\* one loop iteration in which a status packet is read and decoded
ReceiveStatus ==
    /\ pc = "send"
    /\ \E f \in ResponseFrames(cmd_packet, client) :
         LET r  == serial_read(f)
             sp == mdfu_decode_status_packet(r.data)
         IN  /\ r.status = 0
             /\ rx_kinds' = Append(rx_kinds, FrameKind(f))
             /\ retries' = retries_left(retries)
             /\ TransportWrite
             /\ status_packet' = sp
             /\ IF sp.resend
                THEN /\ outcomes' = Append(outcomes, "resend")
                     /\ sequence_number' = sequence_after_resend(sequence_number)
                     /\ Continue(0)
                ELSE /\ outcomes' = Append(outcomes, "response")
                     /\ sequence_number' = increment_sequence_number(sequence_number)
                     /\ IF sp.status # SUCCESS
                        THEN IF sp.data = <<>>
                             THEN \* assert(status_packet->data != NULL) in log_error_cause
                                  pc' = "aborted" /\ status' = status
                             ELSE Break(-EPROTO)
                        ELSE Break(0)
    /\ UNCHANGED <<env, itd_delay, image_pos, client_info_valid, local_client_info,
                   caller, cmd_packet, cmd_buf, cmd_timeout, size, state,
                   result>>

\* ---------------------------------------------------------- mdfu_run_update
\* goto err_exit / return 0
Return(rv) ==
    /\ pc' = "done"
    /\ result' = rv

\* mdfu_run_update is called: mdfu_get_client_info sends GET_CLIENT_INFO
RunUpdate ==
    /\ app = "engine"
    /\ action = "update"
    /\ pc = "idle"
    /\ SendPrologue("mdfu_get_client_info", GET_CLIENT_INFO, TRUE, <<>>,
                    client_info_valid, local_client_info)
    /\ itd_delay' = transport_ioctl(MDFU_INTER_TRANSACTION_DELAY_DEFAULT,
                                    itd_delay)
    /\ UNCHANGED <<env, itds, image_pos, client_info_valid, local_client_info,
                   status, status_packet, wire, size, state, result>>

\* MDFU_MAX_COMMAND_DATA_LENGTH < local_client_info.buffer_size
buffer_too_large_orequal(buffer_size) ==
    MDFU_MAX_COMMAND_DATA_LENGTH <= buffer_size

buffer_too_large(buffer_size) == MDFU_MAX_COMMAND_DATA_LENGTH < buffer_size

\* mdfu_send_cmd returned to mdfu_get_client_info: decode the client info,
\* then back in mdfu_run_update check version and buffer size and call
\* mdfu_start_transfer
GetClientInfoReturn ==
    /\ action = "update"
    /\ pc = "returned"
    /\ caller = "mdfu_get_client_info"
    /\ LET r  == mdfu_decode_client_info(status_packet.data,
                                         status_packet.data_length,
                                         local_client_info)
           ci == r.ci
       IN  IF status < 0
           THEN /\ Return(-1)
                /\ UNCHANGED <<local_client_info, client_info_valid,
                               sequence_number, caller, cmd_packet, cmd_buf,
                               cmd_timeout, retries, outcomes, rx_kinds, xwrites,
                               itd_delay>>
           ELSE /\ local_client_info' = ci
                /\ IF \/ ~r.ok
                      \/ version_check(ci.major, ci.minor, ci.patch) < 0
                      \/ buffer_too_large(ci.buffer_size)
                   THEN /\ Return(-1)
                        /\ UNCHANGED <<client_info_valid, sequence_number,
                                       caller, cmd_packet, cmd_buf,
                                       cmd_timeout, retries, outcomes, rx_kinds,
                                       xwrites, itd_delay>>
                   ELSE /\ itd_delay' = transport_ioctl(
                                            ci.inter_transaction_delay,
                                            itd_delay)
                        /\ client_info_valid' = TRUE
                        /\ SendPrologue("mdfu_start_transfer", START_TRANSFER,
                                        FALSE, <<>>, TRUE, ci)
                        /\ UNCHANGED result
    /\ UNCHANGED <<env, itds, image_pos, status, status_packet, wire, size, state>>

\* mdfu_send_cmd returned to mdfu_start_transfer
StartTransferReturn ==
    /\ pc = "returned"
    /\ caller = "mdfu_start_transfer"
    /\ IF status < 0
       THEN Return(-1)
       ELSE pc' = "chunk" /\ UNCHANGED result
    /\ UNCHANGED <<env, itd_delay, itds, image_pos, sequence_number, client_info_valid,
                   local_client_info, caller, cmd_packet, cmd_buf,
                   cmd_timeout, retries, status, status_packet,
                   outcomes, rx_kinds, xwrites, wire, size, state>>

\* image_reader->read(data, size): number of bytes delivered at offset pos
image_read_size_one(img, pos, n) == Min(1, Len(img) - pos)

image_read_size(img, pos, n) == Min(n, Len(img) - pos)

\* file offset after a read of read_size bytes
image_offset(pos, read_size) == pos + read_size

\* mdfu_write_chunk: read the next chunk from the image and, unless the
\* read returned 0 bytes, send it with WRITE_CHUNK
WriteChunk ==
    /\ pc = "chunk"
    /\ \E read_ok \in BOOLEAN :
         LET read_size == image_read_size(image, image_pos,
                                          local_client_info.buffer_size)
         IN  IF ~read_ok
             THEN /\ Return(-1)
                  /\ UNCHANGED <<image_pos, size, sequence_number, caller,
                                 cmd_packet, cmd_buf, cmd_timeout, retries,
                                 outcomes, rx_kinds, xwrites>>
             ELSE /\ image_pos' = image_offset(image_pos, read_size)
                  /\ size' = read_size
                  /\ UNCHANGED result
                  /\ IF read_size # 0
                     THEN SendPrologue("mdfu_write_chunk", WRITE_CHUNK, FALSE,
                                       SubSeq(image, image_pos + 1,
                                              image_pos + read_size),
                                       client_info_valid, local_client_info)
                     ELSE /\ pc' = "loop"
                          /\ UNCHANGED <<sequence_number, caller, cmd_packet,
                                         cmd_buf, cmd_timeout, retries,
                                         outcomes, rx_kinds, xwrites>>
    /\ UNCHANGED <<env, itd_delay, itds, client_info_valid, local_client_info, status,
                   status_packet, wire, state>>

\* mdfu_send_cmd returned to mdfu_write_chunk
WriteChunkReturn ==
    /\ pc = "returned"
    /\ caller = "mdfu_write_chunk"
    /\ IF status < 0
       THEN Return(-1)
       ELSE pc' = "loop" /\ UNCHANGED result
    /\ UNCHANGED <<env, itd_delay, itds, image_pos, sequence_number, client_info_valid,
                   local_client_info, caller, cmd_packet, cmd_buf,
                   cmd_timeout, retries, status, status_packet,
                   outcomes, rx_kinds, xwrites, wire, size, state>>

\* while(size == local_client_info.buffer_size); after the loop
\* mdfu_get_image_state sends GET_IMAGE_STATE
ChunkLoop ==
    /\ pc = "loop"
    /\ IF size = local_client_info.buffer_size
       THEN /\ pc' = "chunk"
            /\ UNCHANGED <<sequence_number, caller, cmd_packet, cmd_buf,
                           cmd_timeout, retries, outcomes, rx_kinds, xwrites>>
       ELSE SendPrologue("mdfu_get_image_state", GET_IMAGE_STATE, FALSE, <<>>,
                         client_info_valid, local_client_info)
    /\ UNCHANGED <<env, itd_delay, itds, image_pos, client_info_valid, local_client_info,
                   status, status_packet, wire, size, state, result>>

\* state != VALID
image_state_rejected_zero(st) == st = 0

image_state_rejected(st) == st # VALID

\* mdfu_send_cmd returned to mdfu_get_image_state; back in mdfu_run_update
\* the state is checked and mdfu_end_transfer sends END_TRANSFER
GetImageStateReturn ==
    /\ pc = "returned"
    /\ caller = "mdfu_get_image_state"
    /\ IF status < 0
       THEN /\ Return(-1)
            /\ UNCHANGED <<state, sequence_number, caller, cmd_packet,
                           cmd_buf, cmd_timeout, retries, outcomes, rx_kinds,
                           xwrites>>
       ELSE IF status_packet.data = <<>>
       THEN \* assert(mdfu_status_packet.data != NULL)
            /\ pc' = "aborted"
            /\ UNCHANGED <<state, sequence_number, caller, cmd_packet,
                           cmd_buf, cmd_timeout, retries, outcomes, rx_kinds,
                           xwrites, result>>
       ELSE /\ state' = status_packet.data[1]
            /\ IF image_state_rejected(status_packet.data[1])
               THEN /\ Return(-1)
                    /\ UNCHANGED <<sequence_number, caller, cmd_packet,
                                   cmd_buf, cmd_timeout, retries,
                                   outcomes, rx_kinds, xwrites>>
               ELSE /\ SendPrologue("mdfu_end_transfer", END_TRANSFER, FALSE,
                                    <<>>, client_info_valid, local_client_info)
                    /\ UNCHANGED result
    /\ UNCHANGED <<env, itd_delay, itds, image_pos, client_info_valid, local_client_info,
                   status, status_packet, wire, size>>

\* mdfu_send_cmd returned to mdfu_end_transfer; mdfu_run_update returns
EndTransferReturn ==
    /\ pc = "returned"
    /\ caller = "mdfu_end_transfer"
    /\ Return(IF status < 0 THEN -1 ELSE 0)
    /\ UNCHANGED <<env, itd_delay, itds, image_pos, sequence_number, client_info_valid,
                   local_client_info, caller, cmd_packet, cmd_buf,
                   cmd_timeout, retries, status, status_packet,
                   outcomes, rx_kinds, xwrites, wire, size, state>>

\* ------------------------------------------------------------- main.c, part 2
\* mdfu_client_info calls mdfu_get_client_info(&client_info)
GetClientInfo ==
    /\ app = "engine"
    /\ action = "client-info"
    /\ pc = "idle"
    /\ SendPrologue("mdfu_get_client_info", GET_CLIENT_INFO, TRUE, <<>>,
                    client_info_valid, local_client_info)
    /\ itd_delay' = transport_ioctl(MDFU_INTER_TRANSACTION_DELAY_DEFAULT,
                                    itd_delay)
    /\ UNCHANGED <<env, itds, image_pos, client_info_valid, local_client_info,
                   status, status_packet, wire, size, state, result>>

\* mdfu_send_cmd returned to mdfu_get_client_info, called by
\* mdfu_client_info: decode into the caller's client_info and return
ClientInfoReturn ==
    /\ action = "client-info"
    /\ pc = "returned"
    /\ caller = "mdfu_get_client_info"
    /\ LET r == mdfu_decode_client_info(status_packet.data,
                                        status_packet.data_length,
                                        ZeroClientInfo)
       IN  Return(IF status < 0 \/ ~r.ok THEN -1 ELSE 0)
    /\ UNCHANGED <<env, itd_delay, itds, image_pos, sequence_number, client_info_valid,
                   local_client_info, caller, cmd_packet, cmd_buf,
                   cmd_timeout, retries, status, status_packet,
                   outcomes, rx_kinds, xwrites, wire, size, state>>

\* mdfu_run_update returned to mdfu_update
UpdateReturn ==
    /\ app = "engine"
    /\ action = "update"
    /\ pc = "done"
    /\ IF result < 0
       THEN ErrExit
       ELSE /\ calls' = calls \o <<"mdfu_close", "reader.close">>
            /\ transport' = mdfu_close(transport)
            /\ image_file' = reader_close(image_file)
            /\ app' = "exit"
            /\ exit_status' = 0
    /\ UNCHANGED <<send_retries, image, client, action, engine, fn>>

\* mdfu_get_client_info returned to mdfu_client_info: mdfu_close() on
\* both paths
ClientInfoDone ==
    /\ app = "engine"
    /\ action = "client-info"
    /\ pc = "done"
    /\ calls' = Append(calls, "mdfu_close")
    /\ transport' = mdfu_close(transport)
    /\ app' = "exit"
    /\ exit_status' = IF result < 0 THEN -1 ELSE 0
    /\ UNCHANGED <<send_retries, image, client, action, image_file, engine,
                   fn>>

Next ==
    \/ ToolSetup
    \/ ImageOpen
    \/ ToolInit
    \/ MdfuOpen
    \/ GetClientInfo
    \/ ClientInfoReturn
    \/ UpdateReturn
    \/ ClientInfoDone
    \/ RunUpdate
    \/ WriteFails
    \/ ReadFails
    \/ ReceiveStatus
    \/ GetClientInfoReturn
    \/ StartTransferReturn
    \/ WriteChunk
    \/ WriteChunkReturn
    \/ ChunkLoop
    \/ GetImageStateReturn
    \/ EndTransferReturn

Spec == Init /\ [][Next]_vars

\* the program keeps running: time advances and every call returns
SpecLive == Init /\ [][Next]_vars /\ WF_vars(Next)

\* ------------------------------------- the serial transports on their own
\* byte strings of up to MaxStreamLen bytes over the bytes that matter to
\* the framing: the three codes, their escape values, 0 and 255
CodecBytes == {0, 51, 86, 97, 158, 169, 204, 255}

Streams == UNION {[1..k -> CodecBytes] : k \in 0..MaxStreamLen}

\* frames made from a byte string: the bytes as they are between the start
\* and end codes, and the bytes as payload of a client frame with a right
\* and with a wrong frame check sequence
FramesOf(s) ==
    { <<FRAME_START_CODE>> \o s \o <<FRAME_END_CODE>>,
      ClientFrame(s, FrameCheck(s)),
      ClientFrame(s, (FrameCheck(s) + 1) % 65536) }

CodecInit ==
    /\ send_retries = 1
    /\ image = <<>>
    /\ client = Client(<<1, 2, 0>>, 1, 1, <<<<0, 10>>>>)
    /\ action = "update"
    /\ ProgramStart
    /\ NoPolling
    /\ stream \in Streams
    /\ op = "none"
    /\ frame = <<>>
    /\ out = NoResult
    /\ records = <<>>

\* streaming transport: encode_and_send writes the bytes, the peer's
\* read_and_decode_until takes them up to the end code
EncodeAndSend ==
    /\ op = "none"
    /\ op' = "encode_and_send"
    /\ LET e == encode_and_send(Len(stream), stream)
           r == read_and_decode_until(MDFU_CMD_PACKET_MAX_SIZE,
                                      Append(e, FRAME_END_CODE))
       IN  /\ frame' = e
           /\ out' = [status |-> IF r.status < 0 THEN -1 ELSE 0,
                      size |-> r.status, data |-> r.data]
    /\ UNCHANGED <<send_retries, image, client, action, app, image_file,
                   transport, calls, exit_status, stream, records, engine, polled>>

\* buffered transport: encode_frame_payload, then decode_frame_payload
EncodeFramePayload ==
    /\ op = "none"
    /\ op' = "encode_frame_payload"
    /\ LET e == encode_frame_payload(Len(stream), stream)
       IN  /\ frame' = e
           /\ out' = decode_frame_payload(Len(e), e)
    /\ UNCHANGED <<send_retries, image, client, action, app, image_file,
                   transport, calls, exit_status, stream, records, engine, polled>>

\* read of the streaming transport on a frame
SerialRead ==
    /\ op = "none"
    /\ op' = "serial_read"
    /\ \E f \in FramesOf(stream) :
         /\ frame' = f
         /\ out' = serial_read(f)
    /\ UNCHANGED <<send_retries, image, client, action, app, image_file,
                   transport, calls, exit_status, stream, records, engine, polled>>

\* read of the buffered transport on a frame
SerialBufferedRead ==
    /\ op = "none"
    /\ op' = "serial_buffered_read"
    /\ \E f \in FramesOf(stream) :
         /\ frame' = f
         /\ out' \in serial_buffered_read(f)
    /\ UNCHANGED <<send_retries, image, client, action, app, image_file,
                   transport, calls, exit_status, stream, records, engine, polled>>

\* calculate_crc16(size, data)
CalculateCrc16 ==
    /\ op = "none"
    /\ op' = "calculate_crc16"
    /\ frame' = stream
    /\ out' = [checksum |-> calculate_crc16(Len(stream), stream)]
    /\ UNCHANGED <<send_retries, image, client, action, app, image_file,
                   transport, calls, exit_status, stream, records, engine, polled>>

\* write of the streaming transport on a packet
SerialWrite ==
    /\ op = "none"
    /\ op' = "serial_write"
    /\ frame' = serial_write(Len(stream), stream)
    /\ out' = NoResult
    /\ UNCHANGED <<send_retries, image, client, action, app, image_file,
                   transport, calls, exit_status, stream, records, engine, polled>>

\* write of the buffered transport on a packet
SerialBufferedWrite ==
    /\ op = "none"
    /\ op' = "serial_buffered_write"
    /\ frame' = serial_buffered_write(Len(stream), stream)
    /\ out' = NoResult
    /\ UNCHANGED <<send_retries, image, client, action, app, image_file,
                   transport, calls, exit_status, stream, records, engine, polled>>

\* the buffer limit the accumulate step is given when exercised on its own
SmallBufferSize == 2

\* read_and_decode_until(max_size, data, timer) of the streaming transport
\* on the bytes the MAC delivers before the deadline
ReadAndDecodeUntil ==
    /\ op = "none"
    /\ op' = "read_and_decode_until"
    /\ frame' = stream
    /\ LET r == read_and_decode_until(SmallBufferSize, stream)
       IN  out' = [status |-> r.status, size |-> Len(r.data), data |-> r.data]
    /\ UNCHANGED <<send_retries, image, client, action, app, image_file,
                   transport, calls, exit_status, stream, records, engine, polled>>

\* read_until(FRAME_END_CODE, max_size, data, timer) of the buffered
\* transport on the bytes the MAC delivers before the deadline
ReadUntil ==
    /\ op = "none"
    /\ op' = "read_until"
    /\ frame' = stream
    /\ LET r == read_until(FRAME_END_CODE, SmallBufferSize, stream)
       IN  out' = [status |-> r.status, size |-> Len(r.data), data |-> r.data]
    /\ UNCHANGED <<send_retries, image, client, action, app, image_file,
                   transport, calls, exit_status, stream, records, engine, polled>>

\* sizes of the status packets a client answers with: the largest that
\* fits the status packet buffer together with its check sequence, the
\* next, the largest the protocol allows, and one more
ResponseSizes ==
    (MDFU_RESPONSE_PACKET_MAX_SIZE - 2)..(MDFU_RESPONSE_PACKET_MAX_SIZE + 1)

\* read of the streaming transport, called by mdfu_send_cmd with
\* status_packet_buffer as data, on the frame of a status packet
SerialReadResponse ==
    /\ op = "none"
    /\ op' = "serial_read_response"
    /\ \E n \in ResponseSizes :
         LET f == ClientFrame(Image(n), FrameCheck(Image(n)))
             r == serial_read(f)
         IN  /\ frame' = f
             /\ out' = [status |-> r.status, size |-> r.size,
                        data |-> r.data, stored |-> serial_read_stored(f)]
    /\ UNCHANGED <<send_retries, image, client, action, app, image_file,
                   transport, calls, exit_status, stream, records, engine, polled>>

\* read of the buffered transport, called the same way
SerialBufferedReadResponse ==
    /\ op = "none"
    /\ op' = "serial_buffered_read_response"
    /\ \E n \in ResponseSizes :
         LET f == ClientFrame(Image(n), FrameCheck(Image(n)))
         IN  /\ frame' = f
             /\ \E r \in serial_buffered_read(f) :
                  out' = [status |-> r.status, size |-> r.size,
                          data |-> r.data,
                          stored |-> serial_buffered_read_stored(f)]
    /\ UNCHANGED <<send_retries, image, client, action, app, image_file,
                   transport, calls, exit_status, stream, records, engine, polled>>

CodecNext ==
    \/ SerialReadResponse
    \/ SerialBufferedReadResponse
    \/ ReadAndDecodeUntil
    \/ ReadUntil
    \/ SerialWrite
    \/ SerialBufferedWrite
    \/ EncodeAndSend
    \/ EncodeFramePayload
    \/ SerialRead
    \/ SerialBufferedRead
    \/ CalculateCrc16

SpecCodec == CodecInit /\ [][CodecNext]_vars

\* ------------------------------------- mdfu_decode_client_info on its own
\* a client info record: type, declared length, value bytes, and what is
\* wrong with it, "none" for a well-formed record
Rec(type, len, val, flaw) ==
    [type |-> type, len |-> len, val |-> val, flaw |-> flaw]

VersionRecord(c) ==
    Rec(PROTOCOL_VERSION, 3, <<c.ver[1], c.ver[2], c.ver[3]>>, "none")

VersionRecordInternal(c) ==
    Rec(PROTOCOL_VERSION, 4, <<c.ver[1], c.ver[2], c.ver[3], 7>>, "none")

BufferRecord(c) ==
    Rec(BUFFER_INFO, BUFFER_INFO_SIZE,
        <<c.bsize % 256, c.bsize \div 256, c.bcount>>, "none")

TimeoutRecord(c) ==
    Rec(COMMAND_TIMEOUT, COMMAND_TIMEOUT_SIZE * Len(c.timeouts),
        TimeoutBytes(c.timeouts), "none")

DelayRecord ==
    Rec(INTER_TRANSACTION_DELAY, INTER_TRANSACTION_DELAY_SIZE,
        <<16, 39, 0, 0>>, "none")

\* records the decoder has to refuse
BadRecords ==
    { Rec(255, 3, <<128, 0, 2>>, "type"),
      Rec(0, 1, <<0>>, "type"),
      Rec(5, 4, <<16, 39, 0, 0>>, "type"),
      Rec(PROTOCOL_VERSION, 2, <<1, 2>>, "length"),
      Rec(PROTOCOL_VERSION, 5, <<1, 2, 0, 0, 0>>, "length"),
      Rec(BUFFER_INFO, 2, <<128, 0>>, "length"),
      Rec(BUFFER_INFO, 4, <<128, 0, 2, 0>>, "length"),
      Rec(COMMAND_TIMEOUT, 4, <<0, 10, 0, 3>>, "length"),
      Rec(COMMAND_TIMEOUT, 2, <<0, 10>>, "length"),
      Rec(INTER_TRANSACTION_DELAY, 3, <<16, 39, 0>>, "length"),
      Rec(INTER_TRANSACTION_DELAY, 5, <<16, 39, 0, 0, 0>>, "length"),
      Rec(COMMAND_TIMEOUT, 6, <<0, 10, 0, MAX_MDFU_CMD, 1, 0>>, "command"),
      Rec(COMMAND_TIMEOUT, 3, <<255, 1, 0>>, "command"),
      Rec(BUFFER_INFO, 200, <<128, 0, 2>>, "past end"),
      Rec(COMMAND_TIMEOUT, 6, <<WRITE_CHUNK, 10, 0, 0, 10, 0>>, "late default"),
      Rec(COMMAND_TIMEOUT, 9, <<0, 10, 0, WRITE_CHUNK, 10, 0, 0, 20, 0>>,
          "late default"),
      Rec(COMMAND_TIMEOUT, 0, <<>>, "no triple") }

\* the clients whose client info is decoded: those of the update sessions
\* and the one of test_client_info_decoding
DecoderClients ==
    Clients \cup {Client(<<1, 2, 3>>, 128, 2,
                         <<<<0, 10>>, <<WRITE_CHUNK, 10>>,
                           <<GET_IMAGE_STATE, 500>>>>)}

\* all orders of a set of records
Orders(S) ==
    {f \in [1..Cardinality(S) -> S] :
        \A i, j \in 1..Cardinality(S) : i # j => f[i] # f[j]}

\* record x put in front of position k of a sequence
InsertAt(seq, k, x) ==
    SubSeq(seq, 1, k - 1) \o <<x>> \o SubSeq(seq, k, Len(seq))

\* the well-formed records of a client in any order, alone or with one bad
\* record somewhere among them
RecordSeqs(c) ==
    LET good == Orders({VersionRecord(c), BufferRecord(c), TimeoutRecord(c)})
                \cup Orders({VersionRecordInternal(c), BufferRecord(c),
                             TimeoutRecord(c), DelayRecord})
    IN  good \cup UNION { {InsertAt(g, k, b) :
                              k \in 1..(Len(g) + 1), b \in BadRecords}
                           : g \in good }

RECURSIVE Flatten(_)
\* the payload bytes of a sequence of records
Flatten(recs) ==
    IF recs = <<>> THEN <<>>
    ELSE <<Head(recs).type, Head(recs).len>> \o Head(recs).val
         \o Flatten(Tail(recs))

\* a client_info_t the caller has left uninitialised
StaleClientInfo ==
    [major |-> 77, minor |-> 77, patch |-> 77, internal |-> 77,
     internal_present |-> TRUE,
     buffer_count |-> 77, buffer_size |-> 77, default_timeout |-> 77,
     cmd_timeouts |-> [x \in 0..(MAX_MDFU_CMD - 1) |-> 77],
     inter_transaction_delay |-> 77]

DecoderInit ==
    /\ send_retries = 1
    /\ image = <<>>
    /\ client \in DecoderClients
    /\ action = "client-info"
    /\ ProgramStart
    /\ NoPolling
    /\ records \in RecordSeqs(client)
    /\ \E cut \in 0..MaxCut :
         \* a cut ends inside the last record, it does not remove it
         /\ cut = 0 \/ (records # <<>>
                        /\ cut < 2 + Len(records[Len(records)].val))
         /\ stream = SubSeq(Flatten(records), 1, Len(Flatten(records)) - cut)
    /\ op = "none"
    /\ frame = <<>>
    /\ out = NoResult

\* mdfu_decode_client_info(data, length, client_info)
DecodeClientInfo ==
    /\ op = "none"
    /\ op' = "mdfu_decode_client_info"
    /\ \E ci \in {ZeroClientInfo, StaleClientInfo} :
         out' = mdfu_decode_client_info(stream, Len(stream), ci)
    /\ UNCHANGED <<send_retries, image, client, action, app, image_file,
                   transport, calls, exit_status, stream, frame, records,
                   engine, polled>>

DecoderNext == DecodeClientInfo

SpecDecoder == DecoderInit /\ [][DecoderNext]_vars

\* ------------------------------------------ the packet codec on its own
\* command packets mdfu_encode_cmd_packet accepts (its two asserts hold):
\* every sequence number, both sync values, every command, payloads of up
\* to MaxPayloadLen bytes and one of MDFU_MAX_COMMAND_DATA_LENGTH bytes
Payloads ==
    UNION {[1..k -> {0, 255}] : k \in 0..MaxPayloadLen}
    \cup {Image(MDFU_MAX_COMMAND_DATA_LENGTH)}

Packets ==
    [command : 1..(MAX_MDFU_CMD - 1), sync : BOOLEAN,
     sequence_number : 0..MDFU_HEADER_SEQUENCE_NUMBER, data : Payloads]

\* received buffers handed to mdfu_decode_packet: a few headers, every
\* value of the code byte, without and with data
Buffers ==
    { <<hdr, code>> \o d :
        hdr \in {0, 31, 69, 129, 255}, code \in 0..255, d \in {<<>>, <<7>>} }

PacketInit ==
    /\ send_retries = 1
    /\ image = <<>>
    /\ client = Client(<<1, 2, 0>>, 1, 1, <<<<0, 10>>>>)
    /\ action = "update"
    /\ ProgramStart
    /\ NoPolling
    /\ \/ records \in {<<p>> : p \in Packets} /\ stream = <<>>
       \/ records = <<>> /\ stream \in Buffers
    /\ op = "none"
    /\ frame = <<>>
    /\ out = NoResult

\* mdfu_encode_cmd_packet on the packet whose header fields and data are
\* p, then mdfu_decode_packet(MDFU_CMD) on the encoded buffer
EncodeCmdPacket ==
    /\ op = "none"
    /\ records # <<>>
    /\ op' = "mdfu_encode_cmd_packet"
    /\ frame' = mdfu_encode_cmd_packet(records[1])
    /\ out' = mdfu_decode_cmd_packet(mdfu_encode_cmd_packet(records[1]))
    /\ UNCHANGED <<send_retries, image, client, action, app, image_file,
                   transport, calls, exit_status, stream, records, engine, polled>>

\* mdfu_decode_packet(packet, MDFU_CMD, packet_size)
DecodeCmdPacket ==
    /\ op = "none"
    /\ stream # <<>>
    /\ op' = "mdfu_decode_packet MDFU_CMD"
    /\ frame' = stream
    /\ out' = mdfu_decode_cmd_packet(stream)
    /\ UNCHANGED <<send_retries, image, client, action, app, image_file,
                   transport, calls, exit_status, stream, records, engine, polled>>

\* mdfu_decode_packet(packet, MDFU_STATUS, packet_size)
DecodeStatusPacket ==
    /\ op = "none"
    /\ stream # <<>>
    /\ op' = "mdfu_decode_packet MDFU_STATUS"
    /\ frame' = stream
    /\ out' = mdfu_decode_status_packet(stream)
    /\ UNCHANGED <<send_retries, image, client, action, app, image_file,
                   transport, calls, exit_status, stream, records, engine, polled>>

PacketNext ==
    \/ EncodeCmdPacket
    \/ DecodeCmdPacket
    \/ DecodeStatusPacket

SpecPacket == PacketInit /\ [][PacketNext]_vars

\* ------------------------------------------------- SPI and I2C transports
\* static const char frame_length_prefix[] = {'L', 'E', 'N'}
frame_length_prefix == <<76, 69, 78>>

\* static const char frame_response_prefix[] = {'R', 'S', 'P'}
frame_response_prefix == <<82, 83, 80>>

\* static const char rsp_frame_type_length = 'L'
rsp_frame_type_length == 76

\* static const char rsp_frame_type_response = 'R'
rsp_frame_type_response == 82

CLIENT_RSP_PREFIX_SIZE == 4

CLIENT_RSP_LEN_LENGTH_SIZE == 2

CLIENT_RSP_LEN_LENGTH_START == 4

CLIENT_RSP_LEN_CHECKSUM_START == 6

CLIENT_RSP_RSP_PAYLOAD_START == 4

FRAME_TYPE_CMD == 17

FRAME_TYPE_RSP_RETRIEVAL == 85

FRAME_TYPE_SIZE == 1

FRAME_CHECKSUM_SIZE == 2

RSP_LENGTH_FRAME_SIZE == 5

RSP_LENGTH_FRAME_LENGTH_START == 1

RSP_LENGTH_FRAME_CRC_START == 3

RSP_LENGTH_FRAME_LENGTH_SIZE == 2

\* sizeof(buffer) of both transports
FRAME_BUFFER_MAX_SIZE ==
    FRAME_TYPE_SIZE + MDFU_CMD_PACKET_MAX_SIZE + FRAME_CHECKSUM_SIZE

\* set_timeout(timer, timeout): the instant stored in *timer when the clock
\* reads t
set_timeout_now(t, timeout) == t

set_timeout(t, timeout) == t + timeout

\* timeout_expired(timer) when the clock reads t
timeout_expired_always(t, tm) == TRUE

timeout_expired(t, tm) == t > tm

\* buffer[k .. k + n - 1] of a C buffer held as a sequence
Bytes(rx, k, n) == SubSeq(rx, k + 1, k + n)

\* *((uint16_t *) &buffer[k])
u16_at(rx, k) == le16(rx, k + 1)

\* create_cmd_frame of the SPI transport
spi_create_cmd_frame(sz, data) ==
    LET frame_check_sequence == calculate_crc16(sz, data)
    IN  <<FRAME_TYPE_CMD>> \o SubSeq(data, 1, sz)
        \o <<frame_check_sequence % 256, frame_check_sequence \div 256>>

\* create_cmd_frame of the I2C transport
i2c_create_cmd_frame(sz, data) ==
    LET frame_check_sequence == calculate_crc16(sz, data)
    IN  SubSeq(data, 1, sz)
        \o <<frame_check_sequence % 256, frame_check_sequence \div 256>>

\* write of the I2C transport: if(status < 0) status = 0, "ignore errors
\* on write"
i2c_write_status_kept(st) == st

i2c_write_status(st) == IF st < 0 THEN 0 ELSE st

\* create_rsp_frame: the frame size, -1 when the buffer cannot hold it
create_rsp_frame(len) ==
    IF CLIENT_RSP_PREFIX_SIZE + len > FRAME_BUFFER_MAX_SIZE
    THEN -1
    ELSE CLIENT_RSP_PREFIX_SIZE + len

\* response_length < 2 in poll_for_client_response_length (SPI) and
\* poll_for_client_response (I2C)
response_length_too_small_one(len) == len < 1

response_length_too_small(len) == len < 2

\* what a poll makes of the bytes it clocked in: busy (poll again unless
\* the timer of read expired), or done with return value rv
PollAgain == [busy |-> TRUE, rv |-> 0, error |-> "none", data |-> <<>>]

PollDone(rv, error, data) ==
    [busy |-> FALSE, rv |-> rv, error |-> error, data |-> data]

\* poll_for_client_response_length of the SPI transport after spi_transfer
spi_response_length(rx) ==
    IF Bytes(rx, 1, 3) = frame_length_prefix
    THEN LET len == u16_at(rx, CLIENT_RSP_LEN_LENGTH_START)
             checksum == u16_at(rx, CLIENT_RSP_LEN_CHECKSUM_START)
             calc_checksum ==
                 calculate_crc16(CLIENT_RSP_LEN_LENGTH_SIZE,
                                 Bytes(rx, CLIENT_RSP_LEN_LENGTH_START,
                                       CLIENT_RSP_LEN_LENGTH_SIZE))
         IN  IF response_length_too_small(len)
             THEN PollDone(-1, "length", <<>>)
             ELSE IF checksum # calc_checksum
             THEN PollDone(-1, "checksum", <<>>)
             ELSE PollDone(len, "none", <<>>)
    ELSE PollAgain

\* poll_for_client_response of the SPI transport after spi_transfer
spi_response(rx, frame_size) ==
    IF Bytes(rx, 1, 3) = frame_response_prefix
    THEN LET checksum == u16_at(rx, frame_size - 2)
             response_payload_size ==
                 frame_size - FRAME_CHECKSUM_SIZE - CLIENT_RSP_PREFIX_SIZE
             payload == Bytes(rx, CLIENT_RSP_RSP_PAYLOAD_START,
                              response_payload_size)
         IN  IF response_payload_size > MDFU_RESPONSE_PACKET_MAX_SIZE
             THEN PollDone(-1, "overflow", <<>>)
             ELSE IF checksum # calculate_crc16(response_payload_size, payload)
             THEN PollDone(-1, "checksum", <<>>)
             ELSE PollDone(0, "none", payload)
    ELSE PollAgain

\* poll_for_client_response_length of the I2C transport after the MAC read;
\* the values of TIMEOUT_ERROR and CHECKSUM_ERROR come from a header, the
\* return value keeps their sign and the error their name
i2c_response_length(rx) ==
    IF rx[1] = rsp_frame_type_length
    THEN LET data_size == u16_at(rx, RSP_LENGTH_FRAME_LENGTH_START)
             checksum == u16_at(rx, RSP_LENGTH_FRAME_CRC_START)
             calc_checksum ==
                 calculate_crc16(RSP_LENGTH_FRAME_LENGTH_SIZE,
                                 Bytes(rx, RSP_LENGTH_FRAME_LENGTH_START,
                                       RSP_LENGTH_FRAME_LENGTH_SIZE))
         IN  IF checksum # calc_checksum
             THEN PollDone(-1, "CHECKSUM_ERROR", <<>>)
             ELSE PollDone(data_size, "none", <<>>)
    ELSE PollAgain

\* the checks poll_for_client_response of the I2C transport makes before
\* its loop: 0 when the loop is entered
i2c_response_precheck(len) ==
    IF FRAME_TYPE_SIZE + len > FRAME_BUFFER_MAX_SIZE
    THEN PollDone(-1, "EOVERFLOW", <<>>)
    ELSE IF response_length_too_small(len)
    THEN PollDone(-1, "EINVAL", <<>>)
    ELSE PollAgain

\* poll_for_client_response of the I2C transport after the MAC read
i2c_response(rx, len) ==
    IF rx[1] = rsp_frame_type_response
    THEN LET checksum == u16_at(rx, FRAME_TYPE_SIZE + len - FRAME_CHECKSUM_SIZE)
             psize == len - FRAME_CHECKSUM_SIZE
             payload == Bytes(rx, 1, psize)
         IN  IF checksum # calculate_crc16(psize, payload)
             THEN PollDone(-1, "CHECKSUM_ERROR", <<>>)
             ELSE IF psize > MDFU_RESPONSE_PACKET_MAX_SIZE
             THEN PollDone(-1, "EOVERFLOW", <<>>)
             ELSE PollDone(0, "none", payload)
    ELSE PollAgain

\* -------------------------------------- the polled transports on their own
\* the most MAC exchanges followed
MaxExchanges == 4

\* the largest response length a well-behaved client announces
MaxAnnounced == 2

\* how long a MAC exchange takes, in ns
MacDuration == 1000

\* the most inter transaction delays a read timeout spans
MaxPolls == 3

\* n bytes of a client that has no response yet
BusyFrame(n) == [i \in 1..n |-> 0]

\* the length frame a client clocks out: announced length, check sequence
ClientLenFrame(b, len, fcs) ==
    (IF b = "spi" THEN <<0>> \o frame_length_prefix
     ELSE <<rsp_frame_type_length>>)
    \o <<len % 256, len \div 256, fcs % 256, fcs \div 256>>

\* the response frame a client clocks out: status packet, check sequence
ClientRspFrame(b, payload, fcs) ==
    (IF b = "spi" THEN <<0>> \o frame_response_prefix
     ELSE <<rsp_frame_type_response>>)
    \o payload \o <<fcs % 256, fcs \div 256>>

\* a check sequence that does not match
WrongCheck(s) == (FrameCheck(s) + 1) % 65536

\* response lengths a client may announce: small ones, one whose packet
\* exceeds MDFU_RESPONSE_PACKET_MAX_SIZE, one no buffer can hold
AnnouncedLengths ==
    (0..MaxAnnounced)
    \cup {MDFU_RESPONSE_PACKET_MAX_SIZE + FRAME_CHECKSUM_SIZE + 1,
          FRAME_BUFFER_MAX_SIZE}

\* what a length poll can clock in; n is the number of bytes read
LengthReplies(b, n) ==
    {[result |-> "busy", rx |-> BusyFrame(n)]}
    \cup {[result |-> "len",
           rx |-> ClientLenFrame(b, len,
                                 FrameCheck(<<len % 256, len \div 256>>))] :
            len \in AnnouncedLengths}
    \cup {[result |-> "len",
           rx |-> ClientLenFrame(b, len,
                                 WrongCheck(<<len % 256, len \div 256>>))] :
            len \in {0, MaxAnnounced}}

\* what a response poll for len bytes can clock in
ResponseReplies(b, n, len) ==
    LET payload == Image(len - FRAME_CHECKSUM_SIZE)
    IN  {[result |-> "busy",
          rx |-> BusyFrame(n)],
         [result |-> "rsp",
          rx |-> ClientRspFrame(b, payload, FrameCheck(payload))],
         [result |-> "rsp",
          rx |-> ClientRspFrame(b, payload, WrongCheck(payload))]}

\* the MAC call failed: nothing was clocked in
MacFailure == [result |-> "mac failed", rx |-> <<>>]

\* timeouts read is called with, in ns
ReadTimeouts == {MaxPolls * MDFU_INTER_TRANSACTION_DELAY_DEFAULT}

\* the delay ioctl is called with once the client info is known, in ns
ItdDelays == {AdvertisedItd}

\* after init of the SPI or I2C transport: set_timeout(&itd_timer, 0)
PolledInit ==
    /\ send_retries = 1
    /\ image = <<>>
    /\ client = Client(<<1, 2, 0>>, 1, 1, <<<<0, 10>>>>)
    /\ action = "update"
    /\ ProgramStart
    /\ NoFunction
    /\ bus \in {"spi", "i2c"}
    /\ now = 0
    /\ itd_timer = set_timeout(0, 0)
    /\ timer = 0
    /\ tpc = "idle"
    /\ response_length = -1
    /\ exchanges = <<>>
    /\ escape_code = FALSE

\* what no function of the polled transports changes
PolledRest ==
    <<send_retries, image, client, action, app, image_file, transport,
      calls, exit_status, stream, records, bus, image_pos, sequence_number,
      client_info_valid, local_client_info, pc, caller, cmd_packet, cmd_buf,
      cmd_timeout, retries, status, status_packet, outcomes, rx_kinds,
      xwrites, wire, size, state, result, itds, escape_code>>

\* the frame create_rsp_frame leaves in buffer: the frame type, then zeros
rsp_frame(len) ==
    <<FRAME_TYPE_RSP_RETRIEVAL>>
    \o [i \in 1..(CLIENT_RSP_PREFIX_SIZE - FRAME_TYPE_SIZE + len) |-> 0]

\* buffer as poll_for_client_response hands it to spi_transfer: the frame
\* create_rsp_frame built before the loop in the first turn, what the
\* transfer before clocked into buffer in every later turn
spi_response_poll_frame(first, len, buffer) ==
    IF first THEN rsp_frame(len) ELSE buffer

\* one MAC call and then the reset
\* set_timeout(&itd_timer, itd_delay); tx is what the call clocks out, of
\* which the log keeps the frame type
MacExchange(kind, tx, reply) ==
    /\ exchanges' = Append(exchanges,
                           [kind |-> kind, start |-> now,
                            type |-> IF tx = <<>> THEN -1 ELSE tx[1],
                            end |-> now + MacDuration, delay |-> itd_delay,
                            result |-> reply.result])
    /\ now' = now + MacDuration
    /\ itd_timer' = set_timeout(now + MacDuration, itd_delay)

\* read returns
ReadReturn(rv, error, sz, data) ==
    /\ tpc' = "idle"
    /\ out' = [status |-> rv, size |-> sz, data |-> data, error |-> error]

\* CLOCK_MONOTONIC moves on to one of the instants that matter
Advance ==
    /\ \E t \in {itd_timer, itd_timer + 1}
                \cup (IF tpc = "idle" THEN {} ELSE {timer + 1}) :
         /\ t > now
         /\ now' = t
    /\ UNCHANGED <<PolledRest, op, frame, out, itd_delay, itd_timer, timer,
                   tpc, response_length, exchanges>>

\* ioctl(TRANSPORT_IOC_INTER_TRANSACTION_DELAY, delay)
Ioctl ==
    /\ tpc = "idle"
    /\ \E delay \in ItdDelays \ {itd_delay} : itd_delay' = delay
    /\ UNCHANGED <<PolledRest, op, frame, out, now, itd_timer, timer, tpc,
                   response_length, exchanges>>

\* write(size, data) of the SPI transport (create_cmd_frame, spi_transfer)
\* and of the I2C transport, which ignores a failed MAC write; as in
\* mdfu_send_cmd a write is the first call, follows a read or repeats a
\* write that failed
PolledWrite ==
    /\ tpc = "idle"
    /\ op \in {"none", "read"} \/ out.status < 0
    /\ Len(exchanges) < MaxExchanges
    /\ timeout_expired(now, itd_timer)
    /\ \E mac \in {"ok", "write failed", "read failed"} :
         /\ bus = "i2c" => mac # "read failed"
         /\ LET data == mdfu_encode_cmd_packet(
                            [command |-> GET_CLIENT_INFO, sync |-> TRUE,
                             sequence_number |-> 0, data |-> <<>>])
            IN  frame' = IF bus = "spi"
                         THEN spi_create_cmd_frame(Len(data), data)
                         ELSE i2c_create_cmd_frame(Len(data), data)
         /\ LET st == IF mac = "ok" THEN 0 ELSE -1
                rv == IF bus = "spi" THEN st ELSE i2c_write_status(st)
            IN  out' = [status |-> rv, size |-> 0, data |-> <<>>,
                        error |-> IF rv < 0 THEN "mac" ELSE "none"]
         /\ MacExchange("write", frame',
                        [result |-> IF mac = "ok" THEN "ok" ELSE "mac failed",
                         rx |-> frame'])
    /\ op' = "write"
    /\ UNCHANGED <<PolledRest, itd_delay, timer, tpc, response_length>>

\* read(size, data, timeout) up to its first MAC exchange; as in
\* mdfu_send_cmd a read follows a write that returned 0, or it is the
\* first call, as in the tests of the transport
ReadStart ==
    /\ tpc = "idle"
    /\ op = "none" \/ (op = "write" /\ out.status = 0)
    /\ Len(exchanges) < MaxExchanges
    /\ \E timeout \in ReadTimeouts : timer' = set_timeout(now, timeout)
    /\ tpc' = "length"
    /\ op' = "read"
    /\ out' = NoResult
    /\ response_length' = -1
    /\ UNCHANGED <<PolledRest, frame, itd_delay, now, itd_timer, exchanges>>

\* one turn of the loop of poll_for_client_response_length, and what read
\* does with the value it returns
PollLength ==
    /\ tpc = "length"
    /\ Len(exchanges) < MaxExchanges
    /\ timeout_expired(now, itd_timer)
    /\ \E reply \in LengthReplies(bus, IF bus = "spi"
                                       THEN create_rsp_frame(
                                                CLIENT_RSP_LEN_LENGTH_SIZE
                                                + FRAME_CHECKSUM_SIZE)
                                       ELSE RSP_LENGTH_FRAME_SIZE)
                     \cup {MacFailure} :
         /\ MacExchange("length",
                        IF bus = "spi"
                        THEN rsp_frame(CLIENT_RSP_LEN_LENGTH_SIZE
                                       + FRAME_CHECKSUM_SIZE)
                        ELSE <<>>,
                        reply)
         /\ frame' = reply.rx
         /\ IF bus = "spi"
            THEN IF reply = MacFailure
                 THEN /\ ReadReturn(-1, "mac", 0, <<>>)
                      /\ UNCHANGED response_length
                 ELSE LET r == spi_response_length(reply.rx)
                      IN  IF r.busy
                          THEN /\ UNCHANGED response_length
                               /\ IF timeout_expired(now + MacDuration, timer)
                                  THEN ReadReturn(-1, "timeout", 0, <<>>)
                                  ELSE UNCHANGED <<tpc, out>>
                          ELSE IF r.rv < 2
                          THEN /\ ReadReturn(-1, r.error, 0, <<>>)
                               /\ response_length' = r.rv
                          ELSE /\ response_length' = r.rv
                               /\ IF create_rsp_frame(r.rv) < 0
                                  THEN ReadReturn(-1, "EOVERFLOW", 0, <<>>)
                                  ELSE tpc' = "response" /\ UNCHANGED out
            ELSE LET r == IF reply = MacFailure THEN PollAgain
                          ELSE i2c_response_length(reply.rx)
                 IN  IF r.busy
                     THEN /\ UNCHANGED response_length
                          /\ IF timeout_expired(now + MacDuration, timer)
                             THEN ReadReturn(-1, "TIMEOUT_ERROR", 0, <<>>)
                             ELSE UNCHANGED <<tpc, out>>
                     ELSE /\ response_length' = r.rv
                          /\ IF r.rv < 0
                             THEN ReadReturn(r.rv, r.error, 0, <<>>)
                             ELSE LET pre == i2c_response_precheck(r.rv)
                                  IN  IF pre.busy
                                      THEN tpc' = "response" /\ UNCHANGED out
                                      ELSE ReadReturn(pre.rv, pre.error,
                                                      r.rv - FRAME_CHECKSUM_SIZE,
                                                      <<>>)
    /\ UNCHANGED <<PolledRest, op, itd_delay, timer>>

\* one turn of the loop of poll_for_client_response, and the return of read
PollResponse ==
    /\ tpc = "response"
    /\ Len(exchanges) < MaxExchanges
    /\ timeout_expired(now, itd_timer)
    /\ \E reply \in ResponseReplies(bus,
                                    IF bus = "spi"
                                    THEN create_rsp_frame(response_length)
                                    ELSE FRAME_TYPE_SIZE + response_length,
                                    response_length)
                     \cup {MacFailure} :
         /\ MacExchange("response",
                        IF bus = "spi"
                        THEN spi_response_poll_frame(
                                 exchanges[Len(exchanges)].kind # "response",
                                 response_length, frame)
                        ELSE <<>>,
                        reply)
         /\ frame' = reply.rx
         /\ IF bus = "spi"
            THEN IF reply = MacFailure
                 THEN ReadReturn(-1, "mac", 0, <<>>)
                 ELSE LET r == spi_response(reply.rx,
                                            create_rsp_frame(response_length))
                      IN  IF r.busy
                          THEN IF timeout_expired(now + MacDuration, timer)
                               THEN ReadReturn(-1, "timeout", 0, <<>>)
                               ELSE UNCHANGED <<tpc, out>>
                          ELSE IF r.rv < 0
                          THEN ReadReturn(-1, r.error, 0, <<>>)
                          ELSE ReadReturn(0, "none",
                                          response_length - FRAME_CHECKSUM_SIZE,
                                          r.data)
            ELSE LET r == IF reply = MacFailure THEN PollAgain
                          ELSE i2c_response(reply.rx, response_length)
                 IN  IF r.busy
                     THEN IF timeout_expired(now + MacDuration, timer)
                          THEN ReadReturn(-1, "TIMEOUT_ERROR",
                                          response_length - FRAME_CHECKSUM_SIZE,
                                          <<>>)
                          ELSE UNCHANGED <<tpc, out>>
                     ELSE ReadReturn(r.rv, r.error,
                                     response_length - FRAME_CHECKSUM_SIZE,
                                     r.data)
    /\ UNCHANGED <<PolledRest, op, itd_delay, timer, response_length>>

PolledNext ==
    \/ Advance
    \/ Ioctl
    \/ PolledWrite
    \/ ReadStart
    \/ PollLength
    \/ PollResponse

SpecPolled == PolledInit /\ [][PolledNext]_vars

\* ------------------------- read of the streaming serial transport in time
\* the buffer limit read passes to read_and_decode_until, scaled down from
\* MDFU_CMD_PACKET_MAX_SIZE
SerialMaxSize == 4

\* the longest timeout read is called with, in clock ticks
SerialTimeout == 2

\* a status packet a client answers with
SerialReply == <<1>>

\* the decoded bytes of a frame that carries SerialReply
SerialReplyFrame ==
    LET fcs == calculate_crc16(Len(SerialReply), SerialReply)
    IN  SerialReply \o <<fcs % 256, fcs \div 256>>

\* bytes the MAC can deliver: the frame codes, an escaped start code and the
\* bytes of a whole reply
SerialMacBytes ==
    {FRAME_START_CODE, FRAME_END_CODE, ESCAPE_SEQ_CODE, FRAME_START_ESC_SEQ}
    \cup {SerialReplyFrame[i] : i \in 1..Len(SerialReplyFrame)}

\* what transport_mac.read(1, &tmp) can return: an error, no byte, one byte
SerialMacReads ==
    {[status |-> -1, data |-> <<>>], [status |-> 0, data |-> <<>>]}
    \cup {[status |-> 1, data |-> <<b>>] : b \in SerialMacBytes}

\* after init of the streaming serial transport
SerialInit ==
    /\ send_retries = 1
    /\ image = <<>>
    /\ client = Client(<<1, 2, 0>>, 1, 1, <<<<0, 10>>>>)
    /\ action = "update"
    /\ ProgramStart
    /\ stream = <<>>
    /\ op = "none"
    /\ frame = <<>>
    /\ out = [status |-> 0, size |-> 0, error |-> "none"]
    /\ records = <<>>
    /\ bus = "serial"
    /\ now = 0
    /\ itd_timer = 0
    /\ timer = 0
    /\ tpc = "idle"
    /\ response_length = -1
    /\ exchanges = <<>>
    /\ escape_code = FALSE

\* what read of the streaming serial transport never changes
SerialRest ==
    <<send_retries, image, client, action, app, image_file, transport,
      calls, exit_status, records, bus, image_pos, sequence_number,
      client_info_valid, local_client_info, pc, caller, cmd_packet, cmd_buf,
      cmd_timeout, retries, status, status_packet, outcomes, rx_kinds,
      xwrites, wire, size, state, result, itd_delay, itds, itd_timer,
      response_length, exchanges>>

\* read returns rv with *size = sz; errno is error
SerialReturn(rv, sz, error) ==
    /\ tpc' = "returned"
    /\ out' = [status |-> rv, size |-> sz, error |-> error]

\* read is entered: set_timeout(&timer, timeout), then discard_until starts
SerialReadStart ==
    /\ tpc = "idle"
    /\ \E timeout \in 1..SerialTimeout : timer' = set_timeout(now, timeout)
    /\ tpc' = "discard"
    /\ op' = "discard_until"
    /\ out' = [out EXCEPT !.status = -1]
    /\ UNCHANGED <<SerialRest, stream, frame, now, escape_code>>

\* CLOCK_MONOTONIC moves on while read runs; what it does after the
\* deadline has passed makes no difference
Tick ==
    /\ tpc \in {"discard", "accumulate"}
    /\ now <= timer
    /\ now' = now + 1
    /\ UNCHANGED <<SerialRest, stream, op, frame, out, timer, tpc,
                   escape_code>>

\* one iteration of the loop of discard_until(FRAME_START_CODE, timer); on
\* the start code read goes on to read_and_decode_until, whose status
\* starts as -1
DiscardStep ==
    /\ tpc = "discard"
    /\ \E m \in SerialMacReads :
         /\ stream' = m.data
         /\ IF m.status = 1 /\ m.data = <<FRAME_START_CODE>>
            THEN /\ tpc' = "accumulate"
                 /\ op' = "read_and_decode_until"
                 /\ out' = [out EXCEPT !.status = -1]
            ELSE IF timeout_expired(now, timer)
            THEN /\ SerialReturn(-1, out.size, "ETIMEDOUT")
                 /\ op' = op
            ELSE /\ out' = [out EXCEPT !.status = m.status]
                 /\ UNCHANGED <<tpc, op>>
    /\ UNCHANGED <<SerialRest, frame, now, timer, escape_code>>

\* what read does with the non-negative status of read_and_decode_until
SerialReadTail(rv, data, error) ==
    IF frame_too_short(rv) THEN SerialReturn(-1, rv, error)
    ELSE IF checksum_differs(calculate_crc16(rv - 2, data),
                             frame_checksum_at(data, rv))
    THEN SerialReturn(-1, rv, error)
    ELSE SerialReturn(0, rv - 2, error)

\* one iteration of the loop of read_and_decode_until(max_size, data, timer)
\* and, when the loop ends, the rest of read
AccumulateStep ==
    /\ tpc = "accumulate"
    /\ IF SerialMaxSize = Len(frame)
       THEN /\ IF out.status < 0
               THEN SerialReturn(out.status, out.size, "ENOBUFS")
               ELSE SerialReadTail(out.status, frame, "ENOBUFS")
            /\ UNCHANGED <<stream, frame, escape_code>>
       ELSE \E m \in SerialMacReads :
              /\ stream' = m.data
              /\ IF m.status < 0
                 THEN /\ SerialReturn(m.status, out.size, "MAC")
                      /\ UNCHANGED <<frame, escape_code>>
                 ELSE IF m.status = 1 /\ m.data = <<FRAME_END_CODE>>
                 THEN /\ SerialReadTail(Len(frame), frame, out.error)
                      /\ UNCHANGED <<frame, escape_code>>
                 ELSE LET r == IF m.status = 1
                               THEN process_byte(m.data[1], frame,
                                                 escape_code)
                               ELSE [rc |-> 0, pdata |-> frame,
                                     escape_code |-> escape_code]
                      IN  /\ frame' = r.pdata
                          /\ escape_code' = r.escape_code
                          /\ IF r.rc < 0
                             THEN SerialReturn(r.rc, out.size, "EINVAL")
                             ELSE IF timeout_expired(now, timer)
                             THEN SerialReturn(-1, out.size, "ETIMEDOUT")
                             ELSE /\ out' = [out EXCEPT !.status = r.rc]
                                  /\ tpc' = tpc
    /\ UNCHANGED <<SerialRest, op, now, timer>>

SerialNext ==
    \/ SerialReadStart
    \/ Tick
    \/ DiscardStep
    \/ AccumulateStep

\* time advances and every MAC read returns
SpecSerial ==
    /\ SerialInit
    /\ [][SerialNext]_vars
    /\ WF_vars(Tick)
    /\ WF_vars(DiscardStep)
    /\ WF_vars(AccumulateStep)

\* ------------------------------------------------------------------ typing
TypeOK ==
    /\ sequence_number \in 0..31
    /\ retries \in 0..send_retries
    /\ image_pos \in 0..Len(image)
    /\ pc \in {"idle", "send", "returned", "chunk", "loop", "done", "aborted"}
    /\ result \in {0, -1}
    /\ status \in {0, -1, -EIO, -EPROTO}
    /\ action \in {"update", "client-info"}
    /\ app \in {"start", "image", "tool_init", "mdfu_open", "engine", "exit"}
    /\ image_file \in {"closed", "open"}
    /\ transport \in {"none", "closed", "open"}
    /\ exit_status \in {0, -1}

\* ------------------------------------------------------- reading the log
LastOutcome == IF outcomes = <<>> THEN "none" ELSE outcomes[Len(outcomes)]

\* the command packet of the i-th exchange as it went over the wire
WireCmd(i) == mdfu_decode_cmd_packet(wire[i])

\* indices of the WRITE_CHUNK exchanges
ChunkIdx == {i \in 1..Len(wire) : WireCmd(i).command = WRITE_CHUNK}

RECURSIVE ChunkBytes(_)
\* payloads of the WRITE_CHUNK commands among the first n exchanges, joined
ChunkBytes(n) ==
    IF n = 0 THEN <<>>
    ELSE ChunkBytes(n - 1) \o
         (IF WireCmd(n).command = WRITE_CHUNK THEN WireCmd(n).data ELSE <<>>)

IsPrefix(a, b) == Len(a) <= Len(b) /\ SubSeq(b, 1, Len(a)) = a

\* mdfu_run_update returned 0
Succeeded == action = "update" /\ pc = "done" /\ result = 0

\* the client's version is newer than MDFU protocol version 1.2.0
ClientNewer(c) ==
    \/ c.ver[1] > 1
    \/ c.ver[1] = 1 /\ c.ver[2] > 2
    \/ c.ver[1] = 1 /\ c.ver[2] = 2 /\ c.ver[3] > 0

\* the timeout the client advertises for a command: its own entry if the
\* list has one, else the default entry (code 0)
Advertised(c, command) ==
    LET own == {k \in 1..Len(c.timeouts) : c.timeouts[k][1] = command}
        dfl == {k \in 1..Len(c.timeouts) : c.timeouts[k][1] = 0}
    IN  IF own # {}
        THEN c.timeouts[CHOOSE k \in own : \A j \in own : j <= k][2]
        ELSE c.timeouts[CHOOSE k \in dfl : TRUE][2]

\* ------------------------------------------------------------------ claims
\* C1: an exchange never issues more than R (send_retries) transport writes,
\* whatever mixture of write failures, read failures and resends occurs.
C1_RetryCap == Len(xwrites) <= send_retries

C1_Witness ==
    /\ pc = "returned"
    /\ send_retries >= 2
    /\ Len(xwrites) = send_retries
    /\ status = -EIO
    /\ outcomes[1] \in {"write failed", "read failed"}
    /\ outcomes[Len(outcomes)] = "resend"

\* C2: when an attempt of the exchange receives a non-resend SUCCESS
\* response, mdfu_send_cmd returns success, on any attempt k with
\* 1 <= k <= R; -EIO is returned only when no attempt yields a non-resend
\* response.
C2_SuccessOnAnyAttempt ==
    pc = "returned" =>
        /\ (LastOutcome = "response" /\ status_packet.status = SUCCESS
              => status >= 0)
        /\ (status = -EIO => LastOutcome # "response")

\* C3: the commands of a session carry the sequence numbers 0, 1, 2, ...,
\* 31, 0, 1, ... counted from the sync command, each the previous one plus
\* one modulo 32, and the counter stays within 0..31.
C3_SequenceDiscipline ==
    /\ sequence_number \in 0..31
    /\ \A i \in 1..Len(wire) :
         /\ wire[i][1] % MDFU_HEADER_RESEND < 32
         /\ i = 1 => WireCmd(i).sync /\ WireCmd(i).sequence_number = 0
         /\ i > 1 => /\ ~WireCmd(i).sync
                     /\ WireCmd(i).sequence_number =
                          (WireCmd(i - 1).sequence_number + 1) % 32

C3_Witness ==
    \E i \in 2..Len(wire) :
        /\ WireCmd(i - 1).sequence_number = 31
        /\ WireCmd(i).sequence_number = 0

C5_ProtocolErrorOnAnyAttempt ==
    (pc = "returned" /\ LastOutcome = "response"
       /\ status_packet.status # SUCCESS)
    => /\ status = -EPROTO
       /\ sequence_number = (cmd_packet.sequence_number + 1) % 32

\* C6: a successful update puts on the wire GET_CLIENT_INFO (sync, 0),
\* START_TRANSFER, the WRITE_CHUNKs, GET_IMAGE_STATE, END_TRANSFER with
\* consecutive sequence numbers; image 00 01 02 03 with buffer_size 2 gives
\* numbers 0..5 and the chunks 00 01 and 02 03.
C6_UpdateOrder ==
    Succeeded =>
        LET n == Len(wire)
        IN  /\ n >= 4
            /\ wire[1] = <<MDFU_HEADER_SYNC, GET_CLIENT_INFO>>
            /\ wire[2] = <<1, START_TRANSFER>>
            /\ \A i \in 3..(n - 2) : WireCmd(i).command = WRITE_CHUNK
            /\ wire[n - 1] = <<(n - 2) % 32, GET_IMAGE_STATE>>
            /\ wire[n] = <<(n - 1) % 32, END_TRANSFER>>
            /\ \A i \in 2..n : wire[i][1] = (i - 1) % 32
            /\ (image = <<0, 1, 2, 3>> /\ client.bsize = 2)
               => wire = << <<128, 1>>, <<1, 2>>, <<2, 3, 0, 1>>,
                            <<3, 3, 2, 3>>, <<4, 4>>, <<5, 5>> >>

C6_Witness ==
    /\ Succeeded
    /\ image = <<0, 1, 2, 3>>
    /\ client.bsize = 2
    /\ Len(wire) = 6

\* C7: with buffer_size B >= 1 the WRITE_CHUNK payloads are, in order, the
\* image cut into pieces of B bytes: none empty, none longer than B, only
\* the last one shorter, and after a successful update they add up to the
\* whole image (L/B chunks for a multiple of B, none for an empty image).
C7_ChunksCoverImage ==
    client.bsize >= 1 =>
        /\ IsPrefix(ChunkBytes(Len(wire)), image)
        /\ \A i \in ChunkIdx :
             /\ WireCmd(i).data_length \in 1..client.bsize
             /\ (\E j \in ChunkIdx : j > i)
                => WireCmd(i).data_length = client.bsize
        /\ Succeeded =>
             /\ ChunkBytes(Len(wire)) = image
             /\ Cardinality(ChunkIdx) =
                  (Len(image) + client.bsize - 1) \div client.bsize

C7_Witness ==
    /\ Succeeded
    /\ client.bsize = 3
    /\ Len(image) = 6
    /\ Cardinality(ChunkIdx) = 2

C9_DeadlineIsAdvertised ==
    pc = "send" =>
        cmd_timeout = IF client_info_valid
                      THEN Advertised(client, cmd_packet.command)
                      ELSE 10

\* C10: END_TRANSFER is sent only after a GET_IMAGE_STATE response whose
\* first payload byte is 1 (VALID); any other value fails the update
\* without END_TRANSFER.
C10_ImageStateGate ==
    /\ cmd_packet.command = END_TRANSFER =>
         /\ state = VALID
         /\ xwrites = <<>> => status_packet.data # <<>>
                              /\ status_packet.data[1] = 1
    /\ (pc = "done" /\ caller = "mdfu_get_image_state" /\ status >= 0
          /\ status_packet.data # <<>> /\ status_packet.data[1] # 1)
       => /\ result = -1
          /\ \A i \in 1..Len(wire) : wire[i][2] # END_TRANSFER

C10_Witness ==
    /\ pc = "done"
    /\ result = -1
    /\ caller = "mdfu_get_image_state"
    /\ status = 0
    /\ status_packet.data = <<INVALID>>
    /\ state = INVALID

\* C11: mdfu_run_update rejects a decoded client info exactly when its
\* version is strictly newer than the host's or its buffer_size is strictly
\* above MDFU_MAX_COMMAND_DATA_LENGTH; an equal or older version with
\* buffer_size equal to MDFU_MAX_COMMAND_DATA_LENGTH is accepted.
C11_RejectExactly ==
    /\ (action = "update" /\ pc = "done"
          /\ caller = "mdfu_get_client_info" /\ status >= 0
          /\ status_packet.data = ClientInfoBytes(client))
       => (ClientNewer(client)
             \/ client.bsize > MDFU_MAX_COMMAND_DATA_LENGTH)
    /\ (pc = "send" /\ caller = "mdfu_start_transfer")
       => /\ ~ClientNewer(client)
          /\ client.bsize <= MDFU_MAX_COMMAND_DATA_LENGTH
    /\ (action = "update" /\ pc = "returned"
          /\ caller = "mdfu_get_client_info" /\ status >= 0
          /\ status_packet.data = ClientInfoBytes(client)
          /\ ~ClientNewer(client)
          /\ client.bsize <= MDFU_MAX_COMMAND_DATA_LENGTH)
       => ENABLED (GetClientInfoReturn /\ client_info_valid')

C11_Witness ==
    /\ pc = "send"
    /\ caller = "mdfu_start_transfer"
    /\ client_info_valid
    /\ ~ClientNewer(client)
    /\ local_client_info.buffer_size = MDFU_MAX_COMMAND_DATA_LENGTH

\* position of a call in the log of open and close calls (0 when absent)
CallAt(name) ==
    IF \E i \in 1..Len(calls) : calls[i] = name
    THEN CHOOSE i \in 1..Len(calls) : calls[i] = name
    ELSE 0

\* C12: in the update action the MDFU session is closed before the image
\* reader is closed, on success and on every failure path.
C12_SessionClosedBeforeReader ==
    (action = "update" /\ app = "exit")
    => /\ CallAt("mdfu_close") > 0
       /\ CallAt("mdfu_close") < CallAt("reader.close")

\* the phase of the session: 0 Closed, 1 Open, 2 ClientKnown and
\* Transferring, 3 Finalizing
SessionPhase ==
    IF transport # "open" THEN 0
    ELSE IF ~client_info_valid THEN 1
    ELSE IF caller \in {"mdfu_start_transfer", "mdfu_write_chunk"} THEN 2
    ELSE 3

\* C13 as stated: when mdfu_get_client_info or mdfu_run_update has ended
\* with an error, the session is already Closed, closed by the engine.
C13_ClosedWhenErrorReturned ==
    (pc = "done" /\ result < 0) => SessionPhase = 0

\* C13, amended: the session moves Closed, Open, ClientKnown/Transferring,
\* Finalizing, Closed in this order; the engine never closes the transport,
\* which is still open when mdfu_get_client_info or mdfu_run_update returns,
\* with an error or not; the session returns to Closed by the mdfu_close of
\* the orchestrator, before the action returns.
C13_SessionPhases ==
    /\ []((pc \in {"send", "returned", "chunk", "loop"}
            \/ (pc = "done" /\ app = "engine"))
           => transport = "open")
    /\ [](app = "exit" => SessionPhase = 0)
    /\ [][ /\ SessionPhase' \in {SessionPhase, SessionPhase + 1, 0}
           /\ (SessionPhase > 0 /\ SessionPhase' = 0)
              => (pc \in {"done"} /\ UNCHANGED engine /\ app' = "exit")
         ]_vars

C13_Witness ==
    /\ app = "exit"
    /\ exit_status = -1
    /\ action = "update"
    /\ caller = "mdfu_write_chunk"
    /\ status = -EIO
    /\ CallAt("mdfu_open") > 0
    /\ transport = "closed"

\* C16: a response frame whose frame check sequence does not match is a
\* failed transport read, never a status packet handed to the engine; when
\* every response frame of an exchange is such a frame the command is written
\* exactly R (send_retries) times and the exchange ends with -EIO.
C16_CrcMismatchExhaustsRetries ==
    /\ Len(rx_kinds) = Len(outcomes)
    /\ \A i \in 1..Len(rx_kinds) :
         rx_kinds[i] = "crc mismatch" => outcomes[i] = "read failed"
    /\ (rx_kinds # <<>>
          /\ \A i \in 1..Len(rx_kinds) : rx_kinds[i] = "crc mismatch")
       => /\ pc \in {"send", "returned", "done"}
          /\ pc = "send" => Len(xwrites) < send_retries
          /\ pc # "send" => /\ Len(xwrites) = send_retries
                            /\ \A i \in 1..Len(xwrites) : xwrites[i] = cmd_buf
                            /\ status = -EIO

C16_Witness ==
    /\ pc = "returned"
    /\ send_retries = 2
    /\ rx_kinds = <<"crc mismatch", "crc mismatch">>
    /\ Len(xwrites) = 2
    /\ status = -EIO

\* C14: for both serial transports, decoding the escaped encoding of a byte
\* string gives the byte string back, and the escaped encoding contains no
\* start code (0x56) and no end code (0x9E).
C14_EscapeRoundTrip ==
    op \in {"encode_and_send", "encode_frame_payload"}
    => /\ out.status = 0
       /\ out.data = stream
       /\ \A i \in 1..Len(frame) :
            frame[i] \notin {FRAME_START_CODE, FRAME_END_CODE}

\* C15: for both serial transports, read returns an error for every frame
\* whose decoded content between the start and end codes is shorter than 3
\* bytes, the empty frame included.
C15_ShortFrameRejected ==
    (op \in {"serial_read", "serial_buffered_read"}
       /\ Len(Unstuff(FrameContent(frame))) < 3)
    => out.status < 0

\* C17: calculate_crc16 of a byte string is the bitwise complement of the
\* sum modulo 2^16 of its bytes, those at even index as low byte and those
\* at odd index as high byte; for the empty string it is 0xFFFF.
C17_CrcIsComplementOfSum ==
    op = "calculate_crc16"
    => /\ out.checksum = 65535 - (SumAt(stream, 0) % 65536)
       /\ stream = <<>> => out.checksum = 65535

C17_Witness ==
    /\ op = "calculate_crc16"
    /\ stream = <<0, 255, 51, 255>>
    /\ out.checksum = 65535 - 65075

\* nothing is cut off the payload and every record is well formed
WellFormedPayload ==
    /\ stream = Flatten(records)
    /\ \A i \in 1..Len(records) : records[i].flaw = "none"

\* C18: a payload of well-formed PROTOCOL_VERSION, BUFFER_INFO and
\* COMMAND_TIMEOUT records in any order decodes successfully to the buffer
\* size and count, the version, and for each command its own timeout entry
\* if there is one and the default timeout otherwise; the payload of
\* test_client_info_decoding gives 128, 2, 1.2.3, default 10, WRITE_CHUNK 10
\* and GET_IMAGE_STATE 500.
C18_DecodesWellFormed ==
    (op = "mdfu_decode_client_info" /\ WellFormedPayload)
    => /\ out.ok
       /\ out.ci.buffer_size = client.bsize
       /\ out.ci.buffer_count = client.bcount
       /\ <<out.ci.major, out.ci.minor, out.ci.patch>> = client.ver
       /\ out.ci.default_timeout = Advertised(client, 0)
       /\ \A c \in 1..(MAX_MDFU_CMD - 1) :
            out.ci.cmd_timeouts[c] = Advertised(client, c)
       /\ stream = <<2, 3, 128, 0, 2, 1, 3, 1, 2, 3,
                     3, 9, 0, 10, 0, 3, 10, 0, 4, 244, 1>>
          => /\ out.ci.buffer_size = 128
             /\ out.ci.buffer_count = 2
             /\ <<out.ci.major, out.ci.minor, out.ci.patch>> = <<1, 2, 3>>
             /\ out.ci.default_timeout = 10
             /\ out.ci.cmd_timeouts[WRITE_CHUNK] = 10
             /\ out.ci.cmd_timeouts[GET_IMAGE_STATE] = 500

C18_Witness ==
    /\ op = "mdfu_decode_client_info"
    /\ stream = <<2, 3, 128, 0, 2, 1, 3, 1, 2, 3,
                  3, 9, 0, 10, 0, 3, 10, 0, 4, 244, 1>>
    /\ out.ok
    /\ out.ci.cmd_timeouts[GET_IMAGE_STATE] = 500
    /\ out.ci.cmd_timeouts[END_TRANSFER] = 10

\* C19: the decoder fails whenever a COMMAND_TIMEOUT record has an entry
\* with command code 0 anywhere but in its first triple.
C19_LateDefaultRejected ==
    (op = "mdfu_decode_client_info"
       /\ \E i \in 1..Len(records) : records[i].flaw = "late default")
    => ~out.ok

C19_Witness ==
    /\ op = "mdfu_decode_client_info"
    /\ Len(records) = 4
    /\ records[4].flaw = "late default"
    /\ records[4].len = 9
    /\ stream = Flatten(records)
    /\ ~out.ok
    /\ out.ci.buffer_size = client.bsize

C21_TimeoutLengthPositiveMultiple ==
    (op = "mdfu_decode_client_info"
       /\ \E i \in 1..Len(records) :
            /\ records[i].type = COMMAND_TIMEOUT
            /\ records[i].len = 0 \/ records[i].len % COMMAND_TIMEOUT_SIZE # 0)
    => ~out.ok

\* C22: for every command packet with sequence number below 32, a valid
\* command code and a payload of 0 to MDFU_MAX_COMMAND_DATA_LENGTH bytes,
\* the encoding has byte 0 = sequence | (0x80 if sync), byte 1 = command, the
\* payload from byte 2 on and length 2 + payload length, and decoding it as
\* a command succeeds and gives the same sync flag, sequence number,
\* command code and payload.
C22_CmdPacketRoundTrip ==
    op = "mdfu_encode_cmd_packet"
    => LET p == records[1]
       IN  /\ frame[1] = p.sequence_number + (IF p.sync THEN 128 ELSE 0)
           /\ frame[2] = p.command
           /\ Len(frame) = 2 + Len(p.data)
           /\ \A i \in 1..Len(p.data) : frame[2 + i] = p.data[i]
           /\ out.rc = 0
           /\ out.sync = p.sync
           /\ out.sequence_number = p.sequence_number
           /\ out.command = p.command
           /\ out.data = p.data
           /\ out.data_length = Len(p.data)

C22_Witness ==
    /\ op = "mdfu_encode_cmd_packet"
    /\ records[1].sync
    /\ records[1].sequence_number = 31
    /\ Len(records[1].data) = MDFU_MAX_COMMAND_DATA_LENGTH
    /\ frame[1] = 159
    /\ out.rc = 0
    /\ out.data_length = MDFU_MAX_COMMAND_DATA_LENGTH

C28_InvalidStatusEndsExchange ==
    [][(/\ pc = "send"
        /\ outcomes' # outcomes
        /\ LastOutcome' \in {"resend", "response"}
        /\ (status_packet'.status = 0
              \/ MAX_MDFU_STATUS <= status_packet'.status))
       => /\ pc' \in {"returned", "aborted"}
          /\ pc' = "returned" => status' < 0]_vars

\* C29: for every packet the buffered serial transport hands the MAC, in
\* its one write, exactly the bytes the streaming serial transport emits
\* over its successive writes: the start code, the escaped packet bytes, the
\* escaped low byte and the escaped high byte of the checksum, the end code.
C29_BufferedWriteEqualsStreaming ==
    /\ op = "serial_buffered_write"
       => /\ frame = serial_write(Len(stream), stream)
          /\ frame = ClientFrame(stream, FrameCheck(stream))
    /\ op = "serial_write"
       => /\ frame = serial_buffered_write(Len(stream), stream)
          /\ frame = ClientFrame(stream, FrameCheck(stream))

\* the packet A9 has the checksum FF56, whose low byte is escaped
C29_Witness ==
    /\ op = "serial_buffered_write"
    /\ stream = <<169>>
    /\ frame = <<FRAME_START_CODE, 169, ESCAPE_SEQ_CODE, FRAME_START_ESC_SEQ,
                 255, FRAME_END_CODE>>

RECURSIVE BadEscape(_, _)
\* the frame content s, read with escape flag esc, has an escape code
\* followed in the content by a byte that is none of the three escape values
BadEscape(s, esc) ==
    IF s = <<>> THEN FALSE
    ELSE IF esc
         THEN \/ Head(s) \notin {FRAME_START_ESC_SEQ, FRAME_END_ESC_SEQ,
                                 ESCAPE_SEQ_ESC_SEQ}
              \/ BadEscape(Tail(s), FALSE)
         ELSE BadEscape(Tail(s), Head(s) = ESCAPE_SEQ_CODE)

C26_ItdFollowsClientInfo ==
    action = "update" =>
        \A i \in 1..Len(wire) :
            IF wire[i][2] = GET_CLIENT_INFO
            THEN itds[i] = MDFU_INTER_TRANSACTION_DELAY_DEFAULT
            ELSE client.itd >= 0 => itds[i] = client.itd

\* the latest MAC exchange
LastExchange == exchanges[Len(exchanges)]

\* the buffer holds a length frame with a matching check sequence that
\* announces len
ValidLengthFrame(len) ==
    frame = ClientLenFrame(bus, len, FrameCheck(<<len % 256, len \div 256>>))

\* C24: in the SPI and I2C transports a length frame with a valid check
\* sequence that announces length 2 lets read go on, and read then succeeds
\* with a packet of size 0; one that announces length 0 or 1 makes read fail
C24_SmallestLength ==
    (exchanges # <<>> /\ op = "read") =>
        /\ (/\ LastExchange.kind = "length"
            /\ ValidLengthFrame(0) \/ ValidLengthFrame(1))
           => (tpc = "idle" /\ out.status < 0)
        /\ (LastExchange.kind = "length" /\ ValidLengthFrame(2))
           => (tpc = "response" /\ response_length = 2)
        /\ (/\ LastExchange.kind = "response"
            /\ response_length = 2
            /\ frame = ClientRspFrame(bus, <<>>, FrameCheck(<<>>)))
           => (tpc = "idle" /\ out.status = 0 /\ out.size = 0
               /\ out.data = <<>>)

C24_Witness ==
    /\ bus = "i2c"
    /\ op = "read"
    /\ tpc = "idle"
    /\ LastExchange.kind = "response"
    /\ response_length = 2
    /\ out.status = 0
    /\ out.size = 0

C27_WriteNakSurfacesAsReadTimeout ==
    [][(bus = "i2c" /\ exchanges' # exchanges)
       => /\ exchanges'[Len(exchanges')].kind = "write"
             => (out'.status = 0 /\ tpc' = "idle")
          /\ (/\ exchanges'[Len(exchanges')].kind # "write"
              /\ exchanges'[Len(exchanges')].result
                    \in {"mac failed", "busy"})
             => IF now' > timer
                THEN /\ tpc' = "idle"
                     /\ out'.status < 0
                     /\ out'.error = "TIMEOUT_ERROR"
                ELSE tpc' = tpc /\ out' = out]_vars

C27_Witness ==
    /\ bus = "i2c"
    /\ Len(exchanges) > 1
    /\ exchanges[1].kind = "write"
    /\ exchanges[1].result = "mac failed"
    /\ \A k \in 2..Len(exchanges) : exchanges[k].kind = "length"
    /\ op = "read"
    /\ tpc = "idle"
    /\ out.error = "TIMEOUT_ERROR"

\* the bytes accumulated from mac reach max_size before an end code is
\* seen: some prefix without end code and without invalid escape decodes
\* (decode = TRUE) or counts (decode = FALSE) to max_size bytes
ReachesLimit(max_size, mac, decode) ==
    \E k \in 0..Len(mac) :
        LET prefix == SubSeq(mac, 1, k)
        IN  /\ \A j \in 1..k : mac[j] # FRAME_END_CODE
            /\ IF decode
               THEN ~BadEscape(prefix, FALSE) /\ Len(Unstuff(prefix)) = max_size
               ELSE k = max_size

\* C31: when the bytes accumulated for a frame reach the buffer limit before
\* the end code is seen, read_and_decode_until and read_until return -1,
\* never a length, and store no byte beyond the limit
C31_OverflowFails ==
    /\ (op = "read_and_decode_until"
          /\ ReachesLimit(SmallBufferSize, stream, TRUE))
       => (out.status = -1 /\ out.size <= SmallBufferSize)
    /\ (op = "read_until" /\ ReachesLimit(SmallBufferSize, stream, FALSE))
       => (out.status = -1 /\ out.size <= SmallBufferSize)

\* read returned after the MAC delivered the end code of a frame
EndDelivered ==
    /\ tpc = "returned"
    /\ op = "read_and_decode_until"
    /\ stream = <<FRAME_END_CODE>>

\* C32 as stated: a serial read during which the MAC never delivers the
\* start code, or never the end code, or never a byte, returns -1 with
\* ETIMEDOUT once the deadline set at its start has passed
C32_NoFrameTimesOut ==
    (bus = "serial" /\ tpc = "returned" /\ ~EndDelivered)
    => /\ out.status = -1
       /\ out.error = "ETIMEDOUT"
       /\ now > timer

\* C32: a serial read that ends without the end code of a frame fails; it
\* fails with ETIMEDOUT after the deadline, or earlier in the accumulate
\* phase on the buffer limit, an invalid escape sequence or a MAC error;
\* once the deadline has passed the next MAC read that changes anything ends
\* the phase; the deadline set at the start is never set again; and every
\* read returns
C32_DeadlineEndsRead ==
    /\ []((bus = "serial" /\ tpc = "returned" /\ ~EndDelivered)
          => /\ out.status = -1
             /\ \/ out.error = "ETIMEDOUT" /\ now > timer
                \/ /\ op = "read_and_decode_until"
                   /\ out.error \in {"ENOBUFS", "EINVAL", "MAC"})
    /\ [][(bus = "serial" /\ tpc \in {"discard", "accumulate"}
             /\ now > timer)
          => \/ tpc' = "returned"
             \/ tpc = "discard" /\ tpc' = "accumulate"]_vars
    /\ [][(bus = "serial" /\ tpc \in {"discard", "accumulate"})
          => timer' = timer]_vars
    /\ ((bus = "serial" /\ tpc = "discard") ~> (tpc = "returned"))

\* the deadline passed in the accumulate phase of a read whose discard phase
\* found the start code, and the read timed out
C32_Witness ==
    /\ bus = "serial"
    /\ tpc = "returned"
    /\ op = "read_and_decode_until"
    /\ out.status = -1
    /\ out.error = "ETIMEDOUT"
    /\ now > timer
    /\ frame # <<>>

\* C33: in read of the SPI transport a frame without the LEN prefix in the
\* length poll, or without the RSP prefix in the response poll, leads to
\* another poll of the same kind (the transfer of a response retrieval
\* frame) while the deadline of read has not passed, and to a timeout once
\* it has; a LEN frame ends the length poll, an RSP frame ends the response
\* poll, and with a valid check sequence read goes on or succeeds
C33_BusyPollsAgain ==
    /\ [][(/\ bus = "spi"
           /\ tpc \in {"length", "response"}
           /\ Len(exchanges') = Len(exchanges) + 1)
          => LET e == exchanges'[Len(exchanges')]
             IN  /\ (e.result = "busy" /\ ~timeout_expired(now', timer))
                    => (tpc' = tpc /\ e.kind = tpc)
                 /\ (e.result = "busy" /\ timeout_expired(now', timer))
                    => (tpc' = "idle" /\ out'.status = -1
                        /\ out'.error = "timeout")
                 /\ e.result \in {"len", "rsp"} => tpc' # tpc
                 /\ (/\ e.result = "len"
                     /\ \E len \in 2..MaxAnnounced :
                          frame' = ClientLenFrame(
                                       "spi", len,
                                       FrameCheck(<<len % 256, len \div 256>>)))
                    => tpc' = "response"
                 /\ (/\ e.result = "rsp"
                     /\ spi_response(frame',
                                     create_rsp_frame(response_length)).rv = 0)
                    => (tpc' = "idle" /\ out'.status = 0)]_vars
    /\ [](bus = "spi"
          => \A i \in 1..Len(exchanges) :
                exchanges[i].kind \in {"length", "response"}
                => exchanges[i].type = FRAME_TYPE_RSP_RETRIEVAL)

\* C33 without the frame a poll clocks out: the loops of the two polls go
\* on, end and time out as the claim says
C33_PollLoops ==
    [][(/\ bus = "spi"
        /\ tpc \in {"length", "response"}
        /\ Len(exchanges') = Len(exchanges) + 1)
       => LET e == exchanges'[Len(exchanges')]
          IN  /\ (e.result = "busy" /\ ~timeout_expired(now', timer))
                 => (tpc' = tpc /\ e.kind = tpc)
              /\ (e.result = "busy" /\ timeout_expired(now', timer))
                 => (tpc' = "idle" /\ out'.status = -1
                     /\ out'.error = "timeout")
              /\ e.result \in {"len", "rsp"} => tpc' # tpc]_vars

\* C34: mdfu_run_update terminates for every image, every retry count and
\* every client info a client can advertise, a buffer size of 0 included
C34_RunUpdateTerminates ==
    (action = "update" /\ app = "engine" /\ pc = "idle")
    ~> (pc \in {"done", "aborted"})

\* C35: mdfu_send_cmd returns success only on a status packet that carries
\* the sequence number of the command it sent
C35_ReplyMatchesCommand ==
    (pc = "returned" /\ status = 0 /\ LastOutcome = "response")
    => status_packet.sequence_number = cmd_packet.sequence_number

\* C36: when mdfu_send_cmd has used up its retries and no attempt brought
\* a status packet other than a resend request, the sequence counter still
\* has the value the command carried, 0 for a sync command, and the
\* exchange fails with -EIO
C36_ExhaustedKeepsSequence ==
    (/\ pc = "returned"
     /\ \A i \in 1..Len(outcomes) : outcomes[i] # "response")
    => /\ Len(outcomes) = send_retries
       /\ status = -EIO
       /\ sequence_number = cmd_packet.sequence_number
       /\ cmd_packet.sync => sequence_number = 0

\* an exchange of a command with a sequence number above 0 that ended after
\* a resend request and a failed attempt
C36_Witness ==
    /\ pc = "returned"
    /\ \A i \in 1..Len(outcomes) : outcomes[i] # "response"
    /\ \E i \in 1..Len(outcomes) : outcomes[i] = "resend"
    /\ \E i \in 1..Len(outcomes) : outcomes[i] # "resend"
    /\ cmd_packet.sequence_number > 0
    /\ ~cmd_packet.sync

\* how often `name` was called
CallCount(name) == Cardinality({i \in 1..Len(calls) : calls[i] = name})

\* C37: when the update or the client-info action returns, the MDFU session
\* and the image reader were closed only after they had been opened, and
\* whatever was opened was closed exactly once
C37_ClosesMatchOpens ==
    app = "exit"
    => /\ CallCount("mdfu_close") = CallCount("mdfu_open")
       /\ CallCount("reader.close") = CallCount("reader.open")
       /\ CallCount("mdfu_close") > 0
          => CallAt("mdfu_open") < CallAt("mdfu_close")
       /\ CallCount("reader.close") > 0
          => CallAt("reader.open") < CallAt("reader.close")

\* C38: the assertions that a status packet has payload bytes never fail:
\* after a status packet without payload that is not SUCCESS, or that is
\* the SUCCESS answer to GET_IMAGE_STATE, the engine has returned an error
C38_PayloadAssertionsHold ==
    /\ pc # "aborted"
    /\ (/\ pc \in {"returned", "done"}
        /\ LastOutcome = "response"
        /\ status_packet.data = <<>>
        /\ \/ status_packet.status # SUCCESS
           \/ cmd_packet.command = GET_IMAGE_STATE)
       => (status < 0 \/ (pc = "done" /\ result < 0))

\* C39: mdfu_decode_client_info reads no byte of the payload at an index
\* at or beyond the length it was given, and the timeouts it stores stay
\* inside cmd_timeouts
C39_DecoderStaysInside ==
    op = "mdfu_decode_client_info"
    => /\ \A k \in client_info_reads(stream, Len(stream), 0) :
             k < Len(stream)
       /\ DOMAIN out.ci.cmd_timeouts = 0..(MAX_MDFU_CMD - 1)

\* C40: read of the serial transports stores at most
\* MDFU_RESPONSE_PACKET_MAX_SIZE bytes into the status packet buffer it is
\* given; the frame of a longer status packet makes it fail
C40_ReadFitsStatusBuffer ==
    op \in {"serial_read_response", "serial_buffered_read_response"}
    => /\ out.stored <= MDFU_RESPONSE_PACKET_MAX_SIZE
       /\ Len(Unstuff(FrameContent(frame))) - FRAME_CHECKSUM_SIZE
             > MDFU_RESPONSE_PACKET_MAX_SIZE
          => out.status < 0

\* C40 for the polled transports: a read that succeeded delivered at most
\* MDFU_RESPONSE_PACKET_MAX_SIZE bytes
C40_PolledReadFits ==
    (op = "read" /\ tpc = "idle" /\ out.status = 0)
    => (Len(out.data) <= MDFU_RESPONSE_PACKET_MAX_SIZE
        /\ out.size = Len(out.data))

====
